---- MODULE Spec2Model ----
(***************************************************************************)
(* mediacanon: the reconciliation engine that keeps the local title store  *)
(* in step with the IMDb bulk dataset (backend/cmd/sync), the TMDB detail  *)
(* API (the backfill of backend/cmd/sync) and the request-time lazy fetch   *)
(* of the server (backend/main.go).                                         *)
(*                                                                         *)
(* Conventions of the model                                                *)
(*  - a nullable column or pointer is a sequence: <<>> is NULL/nil and     *)
(*    <<v>> is the value v;                                                 *)
(*  - a dataset line is the tuple of its tab-separated fields, all strings; *)
(*    strconv.Atoi, strconv.ParseFloat and strings.Split are tables over    *)
(*    the strings the datasets of the model use;                            *)
(*  - SERIAL ids: a title's id is its position in db.titles; movies and     *)
(*    shows have title_id UNIQUE, so a subtype record is identified by its  *)
(*    title id; a season by (show, season number); an episode by            *)
(*    (show, season number, episode number);                                *)
(*  - SHA-256 is taken to be injective: a fingerprint is the byte stream    *)
(*    that was fed to the hash.                                             *)
(***************************************************************************)
EXTENDS Integers, Sequences, FiniteSets, TLC

VARIABLES
    db,      \* the PostgreSQL store: one field per table
    files,   \* the three downloaded dataset files on disk
    run,     \* the sync process (backend/cmd/sync main): position, flags, globals
    srv,     \* the server side: clock, request/response of the last detail view
    epf,     \* the last maybeFetchEpisodes invocation, step by step
    img,     \* the sync-images process (backend/cmd/sync-images main)
    gor      \* goroutines running side by side: handlers, episode fetches

vars == <<db, files, run, srv, epf, img, gor>>

----------------------------------------------------------------------------
(* Bounds of the model *)

MaxLines == 2       \* lines of the three dataset files together, headers aside
MaxRuns == 2        \* sync processes started in one behaviour
batchSize == 1      \* the -batch flag (default 5000), scaled down

----------------------------------------------------------------------------
(* Nullable values *)

Null == <<>>

Some(v) == <<v>>

IsNull(x) == x = <<>>

Val(x) == x[1]

SeqToSet(s) == {s[i] : i \in 1..Len(s)}

\* all sequences over S of length at most n
SeqsUpTo(S, n) == UNION {[1..k -> S] : k \in 0..n}

----------------------------------------------------------------------------
(* Parsing of dataset fields *)

\* strconv.Atoi on the numeric strings the model's datasets use; any other
\* string (including "\\N" and "x") is a parse error
IntOf == ("1" :> 1) @@ ("2" :> 2) @@ ("3" :> 3) @@ ("4" :> 4) @@ ("5" :> 5)
         @@ ("6" :> 6) @@ ("7" :> 7) @@ ("90" :> 90) @@ ("100" :> 100)
         @@ ("200" :> 200) @@ ("2020" :> 2020) @@ ("2021" :> 2021)

AtoiOk(s) == s \in DOMAIN IntOf

\* strconv.ParseFloat, in hundredths of a rating point
FloatOf == ("7.1" :> 710) @@ ("7.13" :> 713) @@ ("8.2" :> 820)

ParseFloatOk(s) == s \in DOMAIN FloatOf

\* the grid of values a REAL column (float32) can hold, in hundredths
RealStep == 10

\* float32(x): round to the nearest representable value
Float32(x) == ((x + (RealStep \div 2)) \div RealStep) * RealStep

\* strings.Split(s, ",")
SplitComma == ("Drama" :> <<"Drama">>) @@ ("Drama,Comedy" :> <<"Drama", "Comedy">>)
              @@ ("Comedy" :> <<"Comedy">>)

\* a "\\N"-or-integer column: nil unless it parses
ParseOptInt(s) == IF s # "\\N" /\ AtoiOk(s) THEN Some(IntOf[s]) ELSE Null

\* intsEqual: null-safe equality of two *int
intsEqual(a, b) ==
    IF IsNull(a) /\ IsNull(b) THEN TRUE
    ELSE IF IsNull(a) \/ IsNull(b) THEN FALSE
    ELSE Val(a) = Val(b)

----------------------------------------------------------------------------
(* The store *)

EmptyDb ==
    [titles |-> <<>>, movies |-> {}, shows |-> {}, genres |-> {},
     titleGenres |-> {}, seasons |-> {}, episodes |-> <<>>,
     syncState |-> Null]

\* a titles row as INSERTed by insertTitlesBatched: the seven dataset columns,
\* every other column at its schema default
NewTitleRow(r) ==
    [imdb |-> Some(r.imdb), type |-> r.type, name |-> r.name,
     startYear |-> r.startYear, endYear |-> r.endYear,
     orig |-> Some(r.orig), runtime |-> r.runtime,
     votes |-> Null, rating |-> Null,
     image |-> Null, tmdb |-> Null, lang |-> Null, release |-> Null,
     pop |-> Null, country |-> Null, flag |-> TRUE, checkedAt |-> Null]

\* a show_episodes row
NewEpisodeRow(key, dn) ==
    [key |-> key, name |-> dn, image |-> Null, airDate |-> Null,
     runtime |-> Null, synopsis |-> Null]

\* POST /api/movies with a name, with or without an imdb_id, and no years:
\* INSERT INTO titles (type, display_name, start_year, end_year, imdb_id,
\* image_url) and INSERT INTO movies, every other column at its schema default
CreateMovie(d, name, imdb) ==
    [d EXCEPT !.titles = Append(@, [NewTitleRow([imdb |-> "", type |-> "movie", name |-> name,
                                                 startYear |-> Null, endYear |-> Null,
                                                 orig |-> "", runtime |-> Null])
                                     EXCEPT !.imdb = imdb, !.orig = Null]),
              !.movies = @ \cup {Len(d.titles) + 1}]

TitleIds(d) == 1..Len(d.titles)

\* the id of the titles row with this imdb_id, 0 if there is none
TitleIdOf(d, imdb) ==
    IF \E i \in TitleIds(d) : d.titles[i].imdb = Some(imdb)
    THEN CHOOSE i \in TitleIds(d) : d.titles[i].imdb = Some(imdb)
    ELSE 0

\* position of the show_episodes row with this key, 0 if there is none
EpisodeIdOf(d, key) ==
    IF \E i \in 1..Len(d.episodes) : d.episodes[i].key = key
    THEN CHOOSE i \in 1..Len(d.episodes) : d.episodes[i].key = key
    ELSE 0

\* records[i:end] for i = 0, batchSize, 2*batchSize, ...
RECURSIVE Batches(_)
Batches(s) ==
    IF Len(s) = 0 THEN <<>>
    ELSE IF Len(s) <= batchSize THEN <<s>>
    ELSE <<SubSeq(s, 1, batchSize)>> \o Batches(SubSeq(s, batchSize + 1, Len(s)))

----------------------------------------------------------------------------
(* syncTitles: the scan of title.basics.tsv *)

EmptyScan ==
    [toInsert |-> <<>>, toUpdate |-> <<>>, newMovie |-> <<>>, newShow |-> <<>>,
     scanned |-> 0, unchanged |-> 0, ignored |-> 0, episodeCount |-> 0,
     short |-> 0, epTitles |-> <<>>, tGenres |-> <<>>]

\* the switch without its tvMiniSeries case
OurTypeSeriesOnly(titleType) ==
    CASE titleType \in {"movie", "tvMovie"} -> "movie"
      [] titleType = "tvSeries" -> "show"
      [] OTHER -> "ignored"

\* the kind mapping of the switch on titleType
OurType(titleType) ==
    CASE titleType \in {"movie", "tvMovie"} -> "movie"
      [] titleType \in {"tvSeries", "tvMiniSeries"} -> "show"
      [] OTHER -> "ignored"

\* COALESCE(original_title, '')
OrigOf(row) == IF IsNull(row.orig) THEN "" ELSE Val(row.orig)

\* the comparison without its runtime test
needsUpdateNoRuntime(existing, rec) ==
    \/ existing.name # rec.name
    \/ ~intsEqual(existing.startYear, rec.startYear)
    \/ ~intsEqual(existing.endYear, rec.endYear)
    \/ OrigOf(existing) # rec.orig

\* the comparison that decides update against unchanged
needsUpdate(existing, rec) ==
    \/ existing.name # rec.name
    \/ ~intsEqual(existing.startYear, rec.startYear)
    \/ ~intsEqual(existing.endYear, rec.endYear)
    \/ OrigOf(existing) # rec.orig
    \/ ~intsEqual(existing.runtime, rec.runtime)

\* the TitleRecord built from a line of nine or more fields
TitleRecordOf(f) ==
    [imdb |-> f[1], type |-> OurType(f[2]), name |-> f[3], orig |-> f[4],
     startYear |-> ParseOptInt(f[6]), endYear |-> ParseOptInt(f[7]),
     runtime |-> ParseOptInt(f[8]),
     genres |-> IF f[9] # "\\N" THEN SplitComma[f[9]] ELSE <<>>]

\* one iteration of the scan loop; d is the store as loaded before the scan
TitleLine(d, acc, f) ==
    IF Len(f) < 9 THEN [acc EXCEPT !.short = @ + 1]
    ELSE IF f[2] = "tvEpisode"
    THEN [acc EXCEPT !.epTitles = (f[1] :> f[3]) @@ @, !.episodeCount = @ + 1]
    ELSE IF OurType(f[2]) = "ignored" THEN [acc EXCEPT !.ignored = @ + 1]
    ELSE
      LET rec == TitleRecordOf(f)
          tid == TitleIdOf(d, rec.imdb)
          a1 == [acc EXCEPT !.scanned = @ + 1,
                            !.tGenres = IF Len(rec.genres) > 0
                                        THEN (rec.imdb :> rec.genres) @@ @ ELSE @]
      IN IF tid # 0
         THEN LET a2 == IF needsUpdate(d.titles[tid], rec)
                        THEN [a1 EXCEPT !.toUpdate = Append(@, rec)]
                        ELSE [a1 EXCEPT !.unchanged = @ + 1]
              IN IF rec.type = "movie" /\ tid \notin d.movies
                 THEN [a2 EXCEPT !.newMovie = Append(@, rec.imdb)]
                 ELSE IF rec.type = "show" /\ tid \notin d.shows
                 THEN [a2 EXCEPT !.newShow = Append(@, rec.imdb)]
                 ELSE a2
         ELSE [a1 EXCEPT !.toInsert = Append(@, rec)]

RECURSIVE ScanTitlesFrom(_, _, _, _)
ScanTitlesFrom(d, lines, i, acc) ==
    IF i > Len(lines) THEN acc
    ELSE ScanTitlesFrom(d, lines, i + 1, TitleLine(d, acc, lines[i]))

ScanTitles(d, lines) == ScanTitlesFrom(d, lines, 1, EmptyScan)

----------------------------------------------------------------------------
(* Write statements.  A statement is a record [op, rows]; ExecStmt gives the  *)
(* store after it and whether PostgreSQL rejected it (a rejected statement   *)
(* changes nothing).                                                         *)

Stmts(op, s) == [i \in 1..Len(Batches(s)) |-> [op |-> op, rows |-> Batches(s)[i]]]

NoDup(s) == \A i, j \in 1..Len(s) : i # j => s[i] # s[j]

\* the first WHEN of a CASE that matches, hits being the positions of the
\* WHENs that match; 0 if none
FirstMatch(hits) ==
    IF hits # {} THEN CHOOSE i \in hits : \A j \in hits : i <= j ELSE 0

\* INSERT INTO titles ... VALUES ... : imdb_id is UNIQUE
InsertTitles(d, rows) ==
    LET ids == [i \in 1..Len(rows) |-> rows[i].imdb]
    IN IF NoDup(ids) /\ \A i \in 1..Len(rows) : TitleIdOf(d, rows[i].imdb) = 0
       THEN [db |-> [d EXCEPT !.titles = @ \o [i \in 1..Len(rows) |-> NewTitleRow(rows[i])]],
             err |-> FALSE]
       ELSE [db |-> d, err |-> TRUE]


\* the title update as it would be if the kind of the line were written too
UpdateTitlesWithType(d, rows) ==
    LET hit(t) == FirstMatch({k \in 1..Len(rows) : t.imdb = Some(rows[k].imdb)})
        upd(t) == LET r == rows[hit(t)]
                  IN [t EXCEPT !.type = r.type, !.name = r.name,
                               !.startYear = r.startYear,
                               !.endYear = r.endYear, !.orig = Some(r.orig),
                               !.runtime = r.runtime]
    IN [db |-> [d EXCEPT !.titles = [i \in TitleIds(d) |->
                     IF hit(d.titles[i]) # 0 THEN upd(d.titles[i]) ELSE d.titles[i]]],
        err |-> FALSE]

\* UPDATE titles SET col = CASE WHEN imdb_id = .. THEN .. END ... WHERE imdb_id IN (..)
UpdateTitles(d, rows) ==
    LET hit(t) == FirstMatch({k \in 1..Len(rows) : t.imdb = Some(rows[k].imdb)})
        upd(t) == LET r == rows[hit(t)]
                  IN [t EXCEPT !.name = r.name, !.startYear = r.startYear,
                               !.endYear = r.endYear, !.orig = Some(r.orig),
                               !.runtime = r.runtime]
    IN [db |-> [d EXCEPT !.titles = [i \in TitleIds(d) |->
                     IF hit(d.titles[i]) # 0 THEN upd(d.titles[i]) ELSE d.titles[i]]],
        err |-> FALSE]

\* INSERT INTO movies (title_id) ... ON CONFLICT (title_id) DO NOTHING
InsertMovies(d, rows) ==
    [db |-> [d EXCEPT !.movies = @ \cup {TitleIdOf(d, rows[i]) : i \in 1..Len(rows)}],
     err |-> \E i \in 1..Len(rows) : TitleIdOf(d, rows[i]) = 0]

\* INSERT INTO shows (title_id) ... ON CONFLICT (title_id) DO NOTHING
InsertShows(d, rows) ==
    [db |-> [d EXCEPT !.shows = @ \cup {TitleIdOf(d, rows[i]) : i \in 1..Len(rows)}],
     err |-> \E i \in 1..Len(rows) : TitleIdOf(d, rows[i]) = 0]

----------------------------------------------------------------------------
(* syncGenres *)

\* a Go map is ranged over in an unspecified order; the model fixes one
RECURSIVE SetToSeq(_)
SetToSeq(S) ==
    IF S = {} THEN <<>>
    ELSE LET x == CHOOSE y \in S : TRUE IN <<x>> \o SetToSeq(S \ {x})

RECURSIVE Flatten(_)
Flatten(ss) == IF Len(ss) = 0 THEN <<>> ELSE Head(ss) \o Flatten(Tail(ss))

\* INSERT INTO genres (name) ... ON CONFLICT (name) DO NOTHING
InsertGenres(d, rows) ==
    [db |-> [d EXCEPT !.genres = @ \cup SeqToSet(rows)], err |-> FALSE]

\* INSERT INTO title_genres ... ON CONFLICT DO NOTHING
InsertTitleGenres(d, rows) ==
    [db |-> [d EXCEPT !.titleGenres = @ \cup SeqToSet(rows)], err |-> FALSE]

\* the unique genre names of the titleGenres global
GenreNames(tGenres) == UNION {SeqToSet(tGenres[k]) : k \in DOMAIN tGenres}

\* the associations not yet in title_genres, in the order they are collected
NewTitleGenres(d, tGenres) ==
    LET keys == SetToSeq({k \in DOMAIN tGenres : TitleIdOf(d, k) # 0})
        ofKey(k) == SelectSeq([i \in 1..Len(tGenres[k]) |-> <<TitleIdOf(d, k), tGenres[k][i]>>],
                              LAMBDA pr : pr \notin d.titleGenres)
    IN Flatten([i \in 1..Len(keys) |-> ofKey(keys[i])])

----------------------------------------------------------------------------
(* syncEpisodes *)

\* showCache: the titles that have a shows row, by imdb_id
ShowOf(d, imdb) ==
    LET tid == TitleIdOf(d, imdb) IN IF tid # 0 /\ tid \in d.shows THEN tid ELSE 0

\* first pass: the (show, season) keys absent from show_seasons
SeasonsToInsert(d, lines) ==
    {<<ShowOf(d, lines[i][2]), IntOf[lines[i][3]]>> :
        i \in {j \in 1..Len(lines) :
                 /\ Len(lines[j]) >= 4
                 /\ lines[j][3] # "\\N"
                 /\ AtoiOk(lines[j][3])
                 /\ ShowOf(d, lines[j][2]) # 0
                 /\ <<ShowOf(d, lines[j][2]), IntOf[lines[j][3]]>> \notin d.seasons}}

EmptyEpScan ==
    [toInsert |-> <<>>, toUpdate |-> <<>>, scanned |-> 0, unchanged |-> 0,
     skipped |-> 0, dropped |-> 0]

\* one iteration of the second pass; seasons is existingSeasons after the
\* season inserts, d the store as loaded at the start of syncEpisodes
EpisodeLine(d, seasons, epTitles, acc, f) ==
    IF Len(f) < 4 THEN [acc EXCEPT !.dropped = @ + 1]
    ELSE IF f[3] = "\\N" \/ f[4] = "\\N" THEN [acc EXCEPT !.skipped = @ + 1]
    ELSE IF ~AtoiOk(f[3]) \/ ~AtoiOk(f[4]) THEN [acc EXCEPT !.dropped = @ + 1]
    ELSE IF ShowOf(d, f[2]) = 0 THEN [acc EXCEPT !.dropped = @ + 1]
    ELSE IF <<ShowOf(d, f[2]), IntOf[f[3]]>> \notin seasons THEN [acc EXCEPT !.dropped = @ + 1]
    ELSE
      LET key == <<ShowOf(d, f[2]), IntOf[f[3]], IntOf[f[4]]>>
          displayName == IF f[1] \in DOMAIN epTitles THEN epTitles[f[1]] ELSE ""
          eid == EpisodeIdOf(d, key)
          \* sql.NullString.String: "" for NULL
          existingName == IF IsNull(d.episodes[eid].name) THEN "" ELSE Val(d.episodes[eid].name)
          a1 == [acc EXCEPT !.scanned = @ + 1]
      IN IF eid # 0
         THEN IF displayName # "" /\ existingName # displayName
              THEN [a1 EXCEPT !.toUpdate = Append(@, [id |-> eid, name |-> displayName])]
              ELSE [a1 EXCEPT !.unchanged = @ + 1]
         ELSE [a1 EXCEPT !.toInsert =
                  Append(@, [key |-> key,
                             name |-> IF displayName # "" THEN Some(displayName) ELSE Null])]

RECURSIVE ScanEpisodesFrom(_, _, _, _, _, _)
ScanEpisodesFrom(d, seasons, epTitles, lines, i, acc) ==
    IF i > Len(lines) THEN acc
    ELSE ScanEpisodesFrom(d, seasons, epTitles, lines, i + 1,
                          EpisodeLine(d, seasons, epTitles, acc, lines[i]))

ScanEpisodes(d, epTitles, lines) ==
    ScanEpisodesFrom(d, d.seasons \cup SeasonsToInsert(d, lines), epTitles, lines, 1, EmptyEpScan)

\* INSERT INTO show_seasons (show_id, season): UNIQUE(show_id, season)
InsertSeasons(d, rows) ==
    IF NoDup(rows) /\ SeqToSet(rows) \cap d.seasons = {}
    THEN [db |-> [d EXCEPT !.seasons = @ \cup SeqToSet(rows)], err |-> FALSE]
    ELSE [db |-> d, err |-> TRUE]

\* INSERT INTO show_episodes (season_id, episode, display_name): UNIQUE(season_id, episode)
InsertEpisodes(d, rows) ==
    LET keys == [i \in 1..Len(rows) |-> rows[i].key]
    IN IF NoDup(keys) /\ \A i \in 1..Len(rows) : EpisodeIdOf(d, keys[i]) = 0
       THEN [db |-> [d EXCEPT !.episodes =
                        @ \o [i \in 1..Len(rows) |-> NewEpisodeRow(rows[i].key, rows[i].name)]],
             err |-> FALSE]
       ELSE [db |-> d, err |-> TRUE]

\* UPDATE show_episodes SET display_name = CASE WHEN id = .. THEN .. END WHERE id IN (..)
UpdateEpisodes(d, rows) ==
    LET hit(i) == FirstMatch({k \in 1..Len(rows) : rows[k].id = i})
    IN [db |-> [d EXCEPT !.episodes = [i \in 1..Len(d.episodes) |->
                     IF hit(i) # 0 THEN [d.episodes[i] EXCEPT !.name = Some(rows[hit(i)].name)]
                     ELSE d.episodes[i]]],
        err |-> FALSE]

----------------------------------------------------------------------------
(* syncRatings *)

\* COALESCE(num_votes, 0), COALESCE(average_rating, 0)
ExistingRating(row) ==
    [votes |-> IF IsNull(row.votes) THEN 0 ELSE Val(row.votes),
     rating |-> IF IsNull(row.rating) THEN 0 ELSE Val(row.rating)]

\* the test on the parsed score, not narrowed to the width of the column
RatingUnchangedExact(d, r) ==
    /\ TitleIdOf(d, r.imdb) # 0
    /\ ExistingRating(d.titles[TitleIdOf(d, r.imdb)]).votes = r.votes
    /\ ExistingRating(d.titles[TitleIdOf(d, r.imdb)]).rating = r.rating

\* the "skip if unchanged" test
RatingUnchanged(d, r) ==
    /\ TitleIdOf(d, r.imdb) # 0
    /\ ExistingRating(d.titles[TitleIdOf(d, r.imdb)]).votes = r.votes
    /\ ExistingRating(d.titles[TitleIdOf(d, r.imdb)]).rating = Float32(r.rating)

RatingWellFormed(f) == Len(f) >= 3 /\ ParseFloatOk(f[2]) /\ AtoiOk(f[3])

RatingRecordOf(f) == [imdb |-> f[1], votes |-> IntOf[f[3]], rating |-> FloatOf[f[2]]]

\* the records appended to an update batch, in file order
RatingsToUpdate(d, lines) ==
    LET recs == [i \in 1..Len(lines) |->
                    IF RatingWellFormed(lines[i]) THEN <<RatingRecordOf(lines[i])>> ELSE <<>>]
    IN SelectSeq(Flatten(recs), LAMBDA r : ~RatingUnchanged(d, r))

RatingsUnchanged(d, lines) ==
    Cardinality({i \in 1..Len(lines) :
                    RatingWellFormed(lines[i]) /\ RatingUnchanged(d, RatingRecordOf(lines[i]))})

\* updateRatingsBatch: num_votes = CASE .. END, average_rating = CASE .. ::real END
UpdateRatings(d, rows) ==
    LET hit(t) == FirstMatch({k \in 1..Len(rows) : t.imdb = Some(rows[k].imdb)})
    IN [db |-> [d EXCEPT !.titles = [i \in TitleIds(d) |->
                     IF hit(d.titles[i]) # 0
                     THEN [d.titles[i] EXCEPT !.votes = Some(rows[hit(d.titles[i])].votes),
                                              !.rating = Some(Float32(rows[hit(d.titles[i])].rating))]
                     ELSE d.titles[i]]],
        err |-> FALSE]

\* result.RowsAffected() of updateRatingsBatch
RowsAffected(d, rows) ==
    Cardinality({i \in TitleIds(d) : \E j \in 1..Len(rows) : d.titles[i].imdb = Some(rows[j].imdb)})

----------------------------------------------------------------------------
(* Running the write statements of a stage *)

ExecStmt(d, st) ==
    CASE st.op = "insTitles" -> InsertTitles(d, st.rows)
      [] st.op = "updTitles" -> UpdateTitles(d, st.rows)
      [] st.op = "insMovies" -> InsertMovies(d, st.rows)
      [] st.op = "insShows" -> InsertShows(d, st.rows)
      [] st.op = "insGenres" -> InsertGenres(d, st.rows)
      [] st.op = "insTG" -> InsertTitleGenres(d, st.rows)
      [] st.op = "insSeasons" -> InsertSeasons(d, st.rows)
      [] st.op = "insEpisodes" -> InsertEpisodes(d, st.rows)
      [] st.op = "updEpisodes" -> UpdateEpisodes(d, st.rows)
      [] st.op = "updRatings" -> UpdateRatings(d, st.rows)

\* execute stmts[i..] in order; statement number failAt meets a store error
\* (0: none does); a statement PostgreSQL rejects ends the stage as well.
\* n counts the statements that committed, affected the rows they matched.
RECURSIVE RunStmts(_, _, _, _, _)
RunStmts(d, stmts, i, failAt, affected) ==
    IF i > Len(stmts) THEN [db |-> d, err |-> FALSE, n |-> i - 1, affected |-> affected]
    ELSE IF i = failAt THEN [db |-> d, err |-> TRUE, n |-> i - 1, affected |-> affected]
    ELSE LET r == ExecStmt(d, stmts[i])
         IN IF r.err THEN [db |-> d, err |-> TRUE, n |-> i - 1, affected |-> affected]
            ELSE RunStmts(r.db, stmts, i + 1, failAt,
                          affected + IF stmts[i].op = "updRatings"
                                     THEN RowsAffected(d, stmts[i].rows) ELSE 0)

\* the statements of each stage, in program order
TitleStmts(sc) ==
    Stmts("insTitles", sc.toInsert) \o Stmts("updTitles", sc.toUpdate)
    \o Stmts("insMovies", sc.newMovie \o
             [i \in 1..Len(SelectSeq(sc.toInsert, LAMBDA r : r.type = "movie")) |->
                 SelectSeq(sc.toInsert, LAMBDA r : r.type = "movie")[i].imdb])
    \o Stmts("insShows", sc.newShow \o
             [i \in 1..Len(SelectSeq(sc.toInsert, LAMBDA r : r.type # "movie")) |->
                 SelectSeq(sc.toInsert, LAMBDA r : r.type # "movie")[i].imdb])

GenreStmts(d, tGenres) ==
    IF DOMAIN tGenres = {} THEN <<>>
    ELSE Stmts("insGenres", SetToSeq(GenreNames(tGenres)))
         \o Stmts("insTG", NewTitleGenres(d, tGenres))

\* the episode inserts issued before the season inserts
EpisodeStmtsEpisodesFirst(d, epTitles, lines) ==
    Stmts("insEpisodes", ScanEpisodes(d, epTitles, lines).toInsert)
    \o Stmts("insSeasons", SetToSeq(SeasonsToInsert(d, lines)))
    \o Stmts("updEpisodes", ScanEpisodes(d, epTitles, lines).toUpdate)

EpisodeStmts(d, epTitles, lines) ==
    Stmts("insSeasons", SetToSeq(SeasonsToInsert(d, lines)))
    \o Stmts("insEpisodes", ScanEpisodes(d, epTitles, lines).toInsert)
    \o Stmts("updEpisodes", ScanEpisodes(d, epTitles, lines).toUpdate)

RatingStmts(d, lines) == Stmts("updRatings", RatingsToUpdate(d, lines))

----------------------------------------------------------------------------
(* The dataset files *)

BasicsPool ==
    { <<"tt1", "movie", "A", "A", "0", "2020", "\\N", "90", "Drama">>,
      <<"tt1", "movie", "B", "A", "0", "2020", "\\N", "90", "Drama">>,
      <<"tt2", "tvSeries", "S", "S", "0", "2021", "\\N", "\\N", "Drama,Comedy">>,
      <<"tt1", "tvMiniSeries", "A", "A", "0", "2020", "\\N", "90", "Drama">>,
      <<"tt2", "tvMovie", "S", "S", "0", "2021", "\\N", "\\N", "Drama">>,
      <<"tt3", "tvEpisode", "E", "E", "0", "\\N", "\\N", "\\N", "\\N">>,
      <<"tt4", "short", "X", "X", "0", "x", "\\N", "\\N", "\\N">> }

EpisodePool ==
    { <<"tt3", "tt2", "1", "1">>,
      <<"tt5", "tt2", "1", "2">>,
      <<"tt6", "tt2", "\\N", "\\N">> }

RatingPool ==
    { <<"tt1", "7.13", "100">>,
      <<"tt2", "8.2", "200">>,
      <<"tt9", "7.1", "100">> }

DataSets ==
    {fs \in [basics : SeqsUpTo(BasicsPool, MaxLines),
             episodes : SeqsUpTo(EpisodePool, MaxLines),
             ratings : SeqsUpTo(RatingPool, MaxLines)] :
        Len(fs.basics) + Len(fs.episodes) + Len(fs.ratings) <= MaxLines}

\* the datasets of earlier days, one of which the store was last imported from
SeedSets ==
    { [basics |-> <<>>, episodes |-> <<>>, ratings |-> <<>>],
      [basics |-> << <<"tt1", "movie", "A", "A", "0", "2020", "\\N", "90", "Drama">> >>,
       episodes |-> <<>>,
       ratings |-> << <<"tt1", "7.1", "100">> >>],
      [basics |-> << <<"tt2", "tvSeries", "S", "S", "0", "2021", "\\N", "\\N", "Drama">>,
                     <<"tt3", "tvEpisode", "E0", "E0", "0", "\\N", "\\N", "\\N", "\\N">> >>,
       episodes |-> << <<"tt3", "tt2", "1", "1">> >>,
       ratings |-> <<>>] }

\* hashFiles: the paths are sorted (title.basics < title.episode < title.ratings)
\* and the contents are copied into one hash one after the other
hashFiles(fs) == Some(fs.basics \o fs.episodes \o fs.ratings)

----------------------------------------------------------------------------
(* The sync process: main of backend/cmd/sync *)

NoCounts ==
    [titleInsert |-> 0, titleUpdate |-> 0, subtype |-> 0, membership |-> 0,
     season |-> 0, epInsert |-> 0, epUpdate |-> 0, ratingBatch |-> 0, ratingUpdated |-> 0,
     titleLines |-> 0, episodeLines |-> 0, ratingLines |-> 0]

\* the lines the counters of "Scan complete: ..." of syncTitles add up to
TitleLinesCounted(sc) ==
    Len(sc.toInsert) + Len(sc.toUpdate) + sc.unchanged + sc.ignored + sc.episodeCount

\* the lines the counters of "Scan complete: ..." of syncEpisodes add up to
EpisodeLinesCounted(sc) ==
    Len(sc.toInsert) + Len(sc.toUpdate) + sc.unchanged + sc.skipped

\* scanned of "Ratings complete: ...": the unchanged and the batched records
RatingLinesCounted(d, lines) == RatingsUnchanged(d, lines) + Len(RatingsToUpdate(d, lines))

\* a process that has not started: n counts the processes started so far,
\* lastDone is the dataset of the last import that ran to completion with no
\* write to the store since; retryOf is the store as it was when the first of
\* the imports aborted since the last completed one started (Null: none);
\* throttled counts the 429 answers to the detail calls of the drain
IdleRun(n, lastDone) ==
    [pc |-> "idle", n |-> n, force |-> FALSE, key |-> FALSE,
     currentHash |-> Null, previousHash |-> Null,
     epTitles |-> <<>>, tGenres |-> <<>>,
     stages |-> {}, writes |-> 0, saved |-> FALSE, counts |-> NoCounts, page |-> <<>>,
     repeat |-> FALSE, lastDone |-> lastDone, db0 |-> EmptyDb, retryOf |-> Null,
     throttled |-> 0]

\* the statements of a stage after syncTitles, on the store and the globals
\* the stages before it left
StageStmts(acc, stage, fs) ==
    CASE stage = "genres" -> GenreStmts(acc.db, acc.tGenres)
      [] stage = "episodes" -> EpisodeStmts(acc.db, acc.epTitles, fs.episodes)
      [] stage = "ratings" -> RatingStmts(acc.db, fs.ratings)

\* the store and the error of a statement run, the globals carried along
StageOutcome(acc, r) == [acc EXCEPT !.db = r.db, !.err = r.err]

\* syncTitles with no statement failing
ImportTitles(d, sc) ==
    StageOutcome([db |-> d, err |-> FALSE, epTitles |-> sc.epTitles, tGenres |-> sc.tGenres],
                 RunStmts(d, TitleStmts(sc), 1, 0, 0))

\* a later stage with no statement failing; a failed stage ends the process
ImportStage(acc, stage, fs) ==
    IF acc.err THEN acc
    ELSE StageOutcome(acc, RunStmts(acc.db, StageStmts(acc, stage, fs), 1, 0, 0))

\* setSyncState after the stages
ImportSealed(acc, fs) ==
    [db |-> [acc.db EXCEPT !.syncState = hashFiles(fs)], err |-> acc.err]

\* the whole import on d with no store error: the four stages and setSyncState
ImportAll(d, fs) ==
    ImportSealed(ImportStage(ImportStage(ImportStage(
        ImportTitles(d, ScanTitles(d, fs.basics)), "genres", fs), "episodes", fs), "ratings", fs), fs)

\* the store the aborted imports started from, as the next process finds it:
\* a process that died in a stage leaves the store it started on (or the one
\* an earlier aborted process started on), one that died before its stages
\* passes on what it found, one that ended normally leaves nothing
AbortedFrom(r) ==
    IF r.pc = "fatal" /\ ~IsNull(r.currentHash)
    THEN IF IsNull(r.retryOf) THEN Some(r.db0) ELSE r.retryOf
    ELSE IF r.pc = "fatal" THEN r.retryOf
    ELSE Null

\* flag.Parse and the start of main: -force is set or not
StartRun ==
    /\ run.pc \in {"idle", "done", "fatal"}
    /\ run.n < MaxRuns
    /\ \E force \in BOOLEAN :
         run' = [IdleRun(run.n + 1, run.lastDone) EXCEPT !.pc = "download", !.force = force,
                                                          !.db0 = db,
                                                          !.retryOf = AbortedFrom(run)]
    /\ UNCHANGED <<db, files, img, srv, epf, gor>>

\* [1.1] the three downloadFile calls: each answers 304 (file kept) or fails
Download ==
    /\ run.pc = "download"
    /\ \E ok \in BOOLEAN : run' = [run EXCEPT !.pc = IF ok THEN "hash" ELSE "fatal"]
    /\ UNCHANGED <<db, files, img, srv, epf, gor>>

\* the dataset the server serves today
ServedData ==
    [basics |-> << <<"tt1", "movie", "B", "A", "0", "2020", "\\N", "90", "Drama">>,
                   <<"tt2", "tvSeries", "S", "S", "0", "2021", "\\N", "\\N", "Drama">> >>,
     episodes |-> << <<"tt3", "tt2", "1", "1">> >>,
     ratings |-> << <<"tt1", "7.1", "100">>, <<"tt2", "8.2", "200">> >>]

\* the dataset it served yesterday, which the disk holds
YesterdayData ==
    [basics |-> << <<"tt1", "movie", "A", "A", "0", "2020", "\\N", "90", "Drama">> >>,
     episodes |-> <<>>,
     ratings |-> << <<"tt1", "7.1", "100">> >>]

FileNames == <<"basics", "episodes", "ratings">>

\* the files a failed io.Copy left incomplete on disk
Partial(fs) == IF "partial" \in DOMAIN fs THEN fs.partial ELSE {}

\* what a downloadFile call can come to: 304, 200 and a complete copy, an
\* error before os.Create (transport error, another status), or an io.Copy
\* that fails after os.Create truncated the file and some lines were written
DownloadOutcomes == {"304", "200", "error", "cut"}

\* the server compares If-Modified-Since, the mtime of the local file, with
\* the Last-Modified of its file: 304 is the answer for a file downloaded from
\* this version, and for one written after it, which an incomplete copy is
NotModified(fs, name) == fs[name] = ServedData[name] \/ name \in Partial(fs)

\* the disk after one downloadFile call with outcome o that wrote k lines
Downloaded(fs, name, o, k) ==
    IF o = "200" THEN [fs EXCEPT ![name] = ServedData[name], !.partial = @ \ {name}]
    ELSE IF o = "cut"
    THEN [fs EXCEPT ![name] = SubSeq(ServedData[name], 1, k), !.partial = @ \cup {name}]
    ELSE fs

\* the three downloadFile calls in turn, log.Fatal at the first that fails
RECURSIVE DownloadFrom(_, _, _, _)
DownloadFrom(fs, i, os, ks) ==
    IF i > Len(FileNames) THEN [files |-> fs, ok |-> TRUE]
    ELSE IF os[i] \in {"error", "cut"}
    THEN [files |-> Downloaded(fs, FileNames[i], os[i], ks[i]), ok |-> FALSE]
    ELSE DownloadFrom(Downloaded(fs, FileNames[i], os[i], ks[i]), i + 1, os, ks)

\* the outcomes the server and the network allow for the call for file i
Allowed(fs, i, o, k) ==
    /\ o = "304" <=> (o # "error" /\ o # "cut" /\ NotModified(fs, FileNames[i]))
    /\ k < Len(ServedData[FileNames[i]])

\* [1.1] the three downloadFile calls, each with any of its outcomes
DownloadFiles ==
    /\ run.pc = "download"
    /\ \E os \in [1..3 -> DownloadOutcomes], ks \in [1..3 -> 0..1] :
         LET r == DownloadFrom(files, 1, os, ks)
         IN /\ \A i \in 1..3 : Allowed(files, i, os[i], ks[i])
            /\ files' = r.files
            /\ run' = [run EXCEPT !.pc = IF r.ok THEN "hash" ELSE "fatal"]
    /\ UNCHANGED <<db, img, srv, epf, gor>>

\* return scanner.Err(): the gzip stream of an incomplete file ends in an
\* unexpected EOF, which the scan loop reports after the stage has written
ScanErr(fs, name) == name \in Partial(fs)

\* the decision without the -force-imdb flag
imdbChangedUnforced(force, cur, prev) == cur # prev

\* a comparison the wrong way round
imdbChangedInverted(force, cur, prev) == force \/ cur = prev

\* imdbChanged := *forceImdb || currentHash != previousHash
imdbChanged(force, cur, prev) == force \/ cur # prev

\* [1.2] hashFiles, getSyncState and the decision imdbChanged
CheckHash ==
    /\ run.pc = "hash"
    /\ LET cur == hashFiles(files)
           prev == db.syncState
           changed == imdbChanged(run.force, cur, prev)
       IN run' = [run EXCEPT !.currentHash = cur, !.previousHash = prev,
                             !.pc = IF changed THEN "titles" ELSE "backfill",
                             !.repeat = changed /\ run.lastDone = Some(files),
                             !.lastDone = IF changed THEN Null ELSE @]
    /\ UNCHANGED <<db, files, img, srv, epf, gor>>

\* the store errors a stage may meet: none (0), the load queries (-1), or
\* write statement number k
FailPoints(stmts) == (-1)..Len(stmts)

\* a stage error that is logged and not fatal
AfterStageLogged(err, next) == next

\* if err := syncX(db); err != nil { log.Fatal(err) }
AfterStage(err, next) == IF err THEN "fatal" ELSE next

\* [1.3] syncTitles
SyncTitles ==
    /\ run.pc = "titles"
    /\ LET sc == ScanTitles(db, files.basics)
           stmts == TitleStmts(sc)
       IN \E failAt \in FailPoints(stmts) :
            IF failAt = -1
            THEN /\ run' = [run EXCEPT !.pc = AfterStage(TRUE, "genres")]
                 /\ db' = db
            ELSE LET r == RunStmts(db, stmts, 1, failAt, 0)
                 IN /\ db' = r.db
                    /\ run' = [run EXCEPT
                          !.pc = AfterStage(r.err \/ ScanErr(files, "basics"), "genres"),
                          !.epTitles = sc.epTitles,
                          !.tGenres = sc.tGenres,
                          !.writes = @ + r.n,
                          !.stages = IF r.err \/ ScanErr(files, "basics")
                                     THEN @ ELSE @ \cup {"titles"},
                          !.counts.titleInsert = Len(sc.toInsert),
                          !.counts.titleUpdate = Len(sc.toUpdate),
                          !.counts.subtype = Len(sc.newMovie) + Len(sc.newShow),
                          !.counts.titleLines = TitleLinesCounted(sc)]
    /\ UNCHANGED <<files, img, srv, epf, gor>>

\* [1.4] syncGenres
SyncGenres ==
    /\ run.pc = "genres"
    /\ LET stmts == GenreStmts(db, run.tGenres)
       IN \E failAt \in FailPoints(stmts) :
            IF failAt = -1
            THEN /\ run' = [run EXCEPT !.pc = AfterStage(TRUE, "episodes")]
                 /\ db' = db
            ELSE LET r == RunStmts(db, stmts, 1, failAt, 0)
                 IN /\ db' = r.db
                    /\ run' = [run EXCEPT
                          !.pc = AfterStage(r.err, "episodes"),
                          !.writes = @ + r.n,
                          !.stages = IF r.err THEN @ ELSE @ \cup {"genres"},
                          !.counts.membership = Len(NewTitleGenres(db, run.tGenres))]
    /\ UNCHANGED <<files, img, srv, epf, gor>>

\* [1.5] syncEpisodes
SyncEpisodes ==
    /\ run.pc = "episodes"
    /\ LET sc == ScanEpisodes(db, run.epTitles, files.episodes)
           stmts == EpisodeStmts(db, run.epTitles, files.episodes)
       IN \E failAt \in FailPoints(stmts) :
            IF failAt = -1
            THEN /\ run' = [run EXCEPT !.pc = AfterStage(TRUE, "ratings")]
                 /\ db' = db
            ELSE LET r == RunStmts(db, stmts, 1, failAt, 0)
                 IN /\ db' = r.db
                    /\ run' = [run EXCEPT
                          !.pc = AfterStage(r.err \/ ScanErr(files, "episodes"), "ratings"),
                          !.writes = @ + r.n,
                          !.stages = IF r.err \/ ScanErr(files, "episodes")
                                     THEN @ ELSE @ \cup {"episodes"},
                          !.counts.season = Cardinality(SeasonsToInsert(db, files.episodes)),
                          !.counts.epInsert = Len(sc.toInsert),
                          !.counts.epUpdate = Len(sc.toUpdate),
                          !.counts.episodeLines = EpisodeLinesCounted(sc)]
    /\ UNCHANGED <<files, img, srv, epf, gor>>

\* [1.6] syncRatings
SyncRatings ==
    /\ run.pc = "ratings"
    /\ LET stmts == RatingStmts(db, files.ratings)
       IN \E failAt \in FailPoints(stmts) :
            IF failAt = -1
            THEN /\ run' = [run EXCEPT !.pc = AfterStage(TRUE, "setstate")]
                 /\ db' = db
            ELSE LET r == RunStmts(db, stmts, 1, failAt, 0)
                 IN /\ db' = r.db
                    /\ run' = [run EXCEPT
                          !.pc = AfterStage(r.err \/ ScanErr(files, "ratings"), "setstate"),
                          !.writes = @ + r.n,
                          !.stages = IF r.err \/ ScanErr(files, "ratings")
                                     THEN @ ELSE @ \cup {"ratings"},
                          !.counts.ratingBatch = Len(RatingsToUpdate(db, files.ratings)),
                          !.counts.ratingUpdated = r.affected,
                          !.counts.ratingLines = RatingLinesCounted(db, files.ratings)]
    /\ UNCHANGED <<files, img, srv, epf, gor>>

\* setSyncState("imdb_files_hash", currentHash): a failed upsert is only logged
setSyncState ==
    /\ run.pc = "setstate"
    /\ \E ok \in BOOLEAN :
         /\ db' = IF ok THEN [db EXCEPT !.syncState = run.currentHash] ELSE db
         /\ run' = [run EXCEPT !.pc = "backfill", !.saved = ok,
                               !.lastDone = Some(files)]
    /\ UNCHANGED <<files, img, srv, epf, gor>>

\* Section 2 with TMDB_API_KEY unset: "Skipping: TMDB_API_KEY not set"
SkipBackfill ==
    /\ run.pc = "backfill"
    /\ ~run.key
    /\ run' = [run EXCEPT !.pc = "done"]
    /\ UNCHANGED <<db, files, img, srv, epf, gor>>

\* the server before any request: the clock, and of the last operation its
\* kind, its title, the response, the external calls it made, the ticks of a
\* rate limiter it waited for and the merge UPDATE it ran; of the last row of
\* the backfill drain the answer to its detail call ("": no call) and the
\* seconds the loop slept after it, and what its Find call came to ("": no call)
IdleSrv ==
    [now |-> 0, op |-> "boot", tid |-> 0, resp |-> Null,
     posterCalls |-> 0, backfillCalls |-> 0, asked |-> {}, merge |-> Null,
     detail |-> "", slept |-> 0, slots |-> 0, lookup |-> ""]

\* the server after an operation other than a detail view
After(op, tid, merge) == [IdleSrv EXCEPT !.now = srv.now, !.op = op, !.tid = tid, !.merge = merge]

\* no maybeFetchEpisodes invocation is in progress
IdleEpf == [pc |-> "idle"]

\* no sync-images process is running: of the process its position, the shows
\* still to sync (the first is the one in hand), the TMDB id of the show in
\* hand and its episodes still to fetch
IdleImg == [pc |-> "idle", shows |-> <<>>, tmdbID |-> 0, eps |-> <<>>]

\* no goroutines of interest are running
IdleGor == [pc |-> "idle"]

\* a store last imported from one of the earlier datasets (or never), today's
\* files on disk, no sync process running
InitSync ==
    /\ \E seed \in SeedSets :
         /\ ~ImportAll(EmptyDb, seed).err
         /\ db = IF seed.basics = <<>> THEN EmptyDb ELSE ImportAll(EmptyDb, seed).db
    /\ files \in DataSets
    /\ run = IdleRun(0, Null)
    /\ srv = IdleSrv
    /\ epf = IdleEpf
    /\ img = IdleImg
    /\ gor = IdleGor

NextSync ==
    \/ StartRun
    \/ Download
    \/ CheckHash
    \/ SyncTitles
    \/ SyncGenres
    \/ SyncEpisodes
    \/ SyncRatings
    \/ setSyncState
    \/ SkipBackfill

SpecSync == InitSync /\ [][NextSync]_vars

----------------------------------------------------------------------------
(* The sync process with its downloads: the disk holds yesterday's files,    *)
(* imported by the last run, and the server serves today's                   *)

InitDownload ==
    /\ files = [partial |-> {}] @@ YesterdayData
    /\ db = ImportAll(EmptyDb, YesterdayData).db
    /\ run = IdleRun(0, Null)
    /\ srv = IdleSrv
    /\ epf = IdleEpf
    /\ img = IdleImg
    /\ gor = IdleGor

NextDownload ==
    \/ StartRun
    \/ DownloadFiles
    \/ CheckHash
    \/ SyncTitles
    \/ SyncGenres
    \/ SyncEpisodes
    \/ SyncRatings
    \/ setSyncState
    \/ SkipBackfill

SpecDownload == InitDownload /\ [][NextDownload]_vars

----------------------------------------------------------------------------
(* The sync process on dataset files that hold malformed lines *)

\* lines of title.basics: too few columns, an unparseable year, a well-formed one
BadBasics ==
    { <<"tt1", "movie", "A">>,
      <<"tt4", "movie", "X", "X", "0", "x", "\\N", "\\N", "\\N">>,
      <<"tt2", "tvSeries", "S", "S", "0", "2021", "\\N", "\\N", "Drama">> }

\* lines of title.episode: too few columns, an unparseable season number, a
\* well-formed one
BadEpisodes ==
    { <<"tt3", "tt2">>,
      <<"tt3", "tt2", "x", "1">>,
      <<"tt3", "tt2", "1", "1">> }

\* lines of title.ratings: too few columns, an unparseable score, a well-formed one
BadRatings ==
    { <<"tt1">>,
      <<"tt1", "x", "100">>,
      <<"tt1", "7.13", "100">> }

BadSets ==
    {fs \in [basics : SeqsUpTo(BadBasics, MaxLines),
             episodes : SeqsUpTo(BadEpisodes, MaxLines),
             ratings : SeqsUpTo(BadRatings, MaxLines)] :
        Len(fs.basics) + Len(fs.episodes) + Len(fs.ratings) <= MaxLines}

InitScan ==
    /\ \E seed \in SeedSets :
         db = IF seed.basics = <<>> THEN EmptyDb ELSE ImportAll(EmptyDb, seed).db
    /\ files \in BadSets
    /\ run = IdleRun(0, Null)
    /\ srv = IdleSrv
    /\ epf = IdleEpf
    /\ img = IdleImg
    /\ gor = IdleGor

SpecScan == InitScan /\ [][NextSync]_vars

----------------------------------------------------------------------------
(* The sync process on a store that holds a movie of the dataset: one the    *)
(* import wrote, or one a user created through the API                       *)

\* lines of title.basics for the movie tt1 that differ in name, original
\* title, start year and runtime; "x" is a year strconv.Atoi rejects
MovieLines ==
    { <<"tt1", "movie", n, o, "0", y, "\\N", rt, "Drama">> :
        n \in {"A", "B"}, o \in {"", "A"}, y \in {"\\N", "x", "2020"}, rt \in {"\\N", "90"} }

InitClassify ==
    /\ db \in {ImportAll(EmptyDb, YesterdayData).db, CreateMovie(EmptyDb, "A", Some("tt1"))}
    /\ files \in [basics : SeqsUpTo(MovieLines, 1) \ {<<>>}, episodes : {<<>>}, ratings : {<<>>}]
    /\ run = IdleRun(0, Null)
    /\ srv = IdleSrv
    /\ epf = IdleEpf
    /\ img = IdleImg
    /\ gor = IdleGor

SpecClassify == InitClassify /\ [][NextSync]_vars

----------------------------------------------------------------------------
(* The sync process on a download that differs from the dataset of the       *)
(* checkpoint in where a file ends and the next begins                       *)

\* datasets of the show tt2 in which the line of its episode stands at the end
\* of title.basics (where the scan drops it as too short), at the start of
\* title.episode, in both or in neither
BoundarySets ==
    [basics : { << <<"tt2", "tvSeries", "S", "S", "0", "2021", "\\N", "\\N", "Drama">> >>,
                << <<"tt2", "tvSeries", "S", "S", "0", "2021", "\\N", "\\N", "Drama">>,
                   <<"tt3", "tt2", "1", "1">> >> },
     episodes : { <<>>, << <<"tt3", "tt2", "1", "1">> >> },
     ratings : { <<>> }]

\* the store and the checkpoint are those of an import of one of the datasets,
\* the download dir holds any of them
InitBoundary ==
    /\ files \in BoundarySets
    /\ \E prev \in BoundarySets :
         /\ db = ImportAll(EmptyDb, prev).db
         /\ run = IdleRun(0, Some(prev))
    /\ srv = IdleSrv
    /\ epf = IdleEpf
    /\ img = IdleImg
    /\ gor = IdleGor

SpecBoundary == InitBoundary /\ [][NextSync]_vars

----------------------------------------------------------------------------
(* Properties of the sync process *)

AllStages == {"titles", "genres", "episodes", "ratings"}

PastImport == {"backfill", "done"}

\* C1: when the fingerprint equals the checkpoint and -force is not set, the
\* run executes no import stage, issues no write statement, leaves every
\* table as it was when the run started and does not rewrite the checkpoint.
C1_UnchangedSkipsImport ==
    (run.pc \in PastImport /\ ~run.force /\ run.currentHash = run.previousHash)
        => /\ run.stages = {}
           /\ run.writes = 0
           /\ ~run.saved
           /\ db = run.db0

\* a run of a populated store that found the fingerprint unchanged and ended
C1_Witness ==
    /\ run.pc = "done"
    /\ ~run.force
    /\ run.currentHash = run.previousHash
    /\ Len(db.titles) > 0
    /\ files.basics # <<>>

\* C2: a second import of the same files right after a completed one
\* classifies no record as insert or update in any stage.
C2_SecondRunClassifiesNothing ==
    (run.repeat /\ run.stages = AllStages)
        => /\ run.counts.titleInsert = 0
           /\ run.counts.titleUpdate = 0
           /\ run.counts.subtype = 0
           /\ run.counts.membership = 0
           /\ run.counts.season = 0
           /\ run.counts.epInsert = 0
           /\ run.counts.epUpdate = 0
           /\ run.counts.ratingBatch = 0

\* an import stage of the current run met a store error
StageFailed == run.pc = "fatal" /\ ~IsNull(run.currentHash)

\* C3 as stated: the checkpoint is written only after all four stages of the
\* same run succeeded; after a failed stage it has the value it had before the
\* run, and the next run on the same files does not skip the import.
C3_FailedRunIsRetried ==
    /\ run.saved => run.stages = AllStages
    /\ StageFailed => /\ ~run.saved
                      /\ db.syncState = run.db0.syncState
                      /\ imdbChanged(FALSE, hashFiles(files), db.syncState)

\* C3 as amended: the same, the next run on the same files not skipping the
\* import unless the failed run was a forced run on files whose fingerprint
\* already equalled the checkpoint.
C3_CheckpointOnlyAfterAllStages ==
    /\ run.saved => run.stages = AllStages
    /\ StageFailed => /\ ~run.saved
                      /\ db.syncState = run.db0.syncState
                      /\ (run.currentHash # run.previousHash
                            => imdbChanged(FALSE, hashFiles(files), db.syncState))

\* a run whose rating stage failed after the first three stages had written
C3_Witness ==
    /\ StageFailed
    /\ run.stages = {"titles", "genres", "episodes"}
    /\ run.writes > 0
    /\ run.currentHash # run.previousHash

C26_EveryLineIsCounted ==
    /\ "titles" \in run.stages => run.counts.titleLines = Len(files.basics)
    /\ "episodes" \in run.stages => run.counts.episodeLines = Len(files.episodes)
    /\ "ratings" \in run.stages => run.counts.ratingLines = Len(files.ratings)

\* the files without the lines the scan loops leave with a bare continue
Parsable(fs) ==
    [basics |-> SelectSeq(fs.basics, LAMBDA f : Len(f) >= 9),
     episodes |-> SelectSeq(fs.episodes,
                            LAMBDA f : /\ Len(f) >= 4
                                       /\ \/ f[3] = "\\N" \/ f[4] = "\\N"
                                          \/ AtoiOk(f[3]) /\ AtoiOk(f[4])),
     ratings |-> SelectSeq(fs.ratings, RatingWellFormed)]

\* a malformed line is skipped and not fatal: the import of the files ends as
\* the import of the files without their malformed lines does, fingerprint aside
MalformedLinesAreSkipped ==
    LET all == ImportAll(run.db0, files)
        kept == ImportAll(run.db0, Parsable(files))
    IN /\ all.err = kept.err
       /\ [all.db EXCEPT !.syncState = Null] = [kept.db EXCEPT !.syncState = Null]

\* the process ended in log.Fatal at one of its downloadFile calls
DownloadFailed == run.pc = "fatal" /\ IsNull(run.currentHash)

\* a run whose download failed has executed no import stage and written nothing
FailedDownloadAbortsBeforeImport ==
    DownloadFailed => run.stages = {} /\ run.writes = 0 /\ db = run.db0

\* the stage that reads each of the three files
StageOfFile == <<"titles", "episodes", "ratings">>

\* C27: a run whose download failed has executed no import stage and written
\* nothing, and no stage of any run writes to the store from a file that a
\* failed download left incomplete.
C27_NoImportFromIncompleteFile ==
    /\ []FailedDownloadAbortsBeforeImport
    /\ [][\A i \in 1..3 : (run.pc = StageOfFile[i] /\ db' # db)
                               => FileNames[i] \notin Partial(files)]_vars

\* the (show, season) pair an episode row hangs under
SeasonOf(e) == <<e.key[1], e.key[2]>>

\* C11: in every state during or after syncEpisodes, whether the stage ran to
\* its end or stopped at a store error after any number of batches, every
\* stored episode references a stored season: no episode is inserted under a
\* (show, season) pair that has no season row, whatever the order of the lines.
C11_EpisodesHaveSeasons ==
    \A i \in 1..Len(db.episodes) : SeasonOf(db.episodes[i]) \in db.seasons

\* an episode stage that inserted a season and an episode under it
C11_Witness ==
    /\ "episodes" \in run.stages
    /\ run.counts.season > 0
    /\ run.counts.epInsert > 0
    /\ Len(db.episodes) > Len(run.db0.episodes)
    /\ \E i \in 1..Len(db.episodes) : SeasonOf(db.episodes[i]) \notin run.db0.seasons

\* the records the scan kept as top-level titles, whatever their fate
KeptTitles(a) == SeqToSet(a.toInsert) \cup SeqToSet(a.toUpdate)

\* the class the scan put a line of nine fields in, read off its counters
LineClass(f, a) ==
    [title |-> a.scanned = 1,
     kinds |-> {r.type : r \in KeptTitles(a)},
     child |-> a.episodeCount = 1 /\ f[1] \in DOMAIN a.epTitles,
     discarded |-> a.ignored = 1,
     kept |-> Len(a.toInsert) + Len(a.toUpdate) + a.unchanged]

\* what the kind token of a line demands of its class
ClassedAs(kind, c) ==
    CASE kind \in {"movie", "tvMovie"} ->
            c.title /\ ~c.child /\ ~c.discarded /\ c.kept = 1 /\ c.kinds \subseteq {"movie"}
      [] kind \in {"tvSeries", "tvMiniSeries"} ->
            c.title /\ ~c.child /\ ~c.discarded /\ c.kept = 1 /\ c.kinds \subseteq {"show"}
      [] kind = "tvEpisode" ->
            ~c.title /\ c.child /\ ~c.discarded /\ c.kept = 0
      [] OTHER ->
            ~c.title /\ ~c.child /\ c.discarded /\ c.kept = 0

\* C12: the kind mapping of the title scan is total: movie and tvMovie lines
\* are scanned as movie records, tvSeries and tvMiniSeries lines as show
\* records, a tvEpisode line is only stored in the episode-title map, every
\* other kind only increments the ignored counter; each line of nine fields
\* falls in exactly one class, the counters of a whole scan add up to the
\* number of lines, and no stored title has another type than movie or show.
C12_KindMappingIsTotal ==
    /\ \A i \in 1..Len(files.basics) :
          Len(files.basics[i]) >= 9 =>
            ClassedAs(files.basics[i][2],
                      LineClass(files.basics[i], TitleLine(db, EmptyScan, files.basics[i])))
    /\ LET sc == ScanTitles(db, files.basics)
       IN sc.scanned + sc.episodeCount + sc.ignored + sc.short = Len(files.basics)
    /\ \A t \in TitleIds(db) : db.titles[t].type \in {"movie", "show"}

\* a title stage that scanned a mini-series line and a discarded kind
C12_Witness ==
    /\ "titles" \in run.stages
    /\ \E i, j \in 1..Len(files.basics) :
          /\ files.basics[i][2] = "tvMiniSeries"
          /\ files.basics[j][2] = "short"
          /\ TitleIdOf(db, files.basics[i][1]) \in db.shows
          /\ TitleIdOf(db, files.basics[j][1]) = 0

\* the file's record for a stored title carries the stored vote count and a
\* score that is the stored one once rounded to the precision of the column
EqualAtStoredPrecision(d, f) ==
    /\ RatingWellFormed(f)
    /\ TitleIdOf(d, f[1]) # 0
    /\ d.titles[TitleIdOf(d, f[1])].votes = Some(IntOf[f[3]])
    /\ d.titles[TitleIdOf(d, f[1])].rating = Some(Float32(FloatOf[f[2]]))

\* the records of the update batches the rating stage builds on this store
BatchedRatings(d, lines) ==
    UNION {SeqToSet(RatingStmts(d, lines)[k].rows) : k \in 1..Len(RatingStmts(d, lines))}

\* C13: a rating record whose vote count equals the stored count and whose
\* score equals the stored score after rounding to single precision is in no
\* update batch of the rating stage, also when the score of the file has more
\* precision than the column keeps.
C13_EqualAtStoredPrecisionIsUnchanged ==
    \A i \in 1..Len(files.ratings) :
        EqualAtStoredPrecision(db, files.ratings[i])
            => /\ RatingRecordOf(files.ratings[i]) \notin BatchedRatings(db, files.ratings)
               /\ RatingsUnchanged(db, files.ratings) > 0

\* a rating stage that ran to its end with no batch, on a file whose score
\* for a stored title is finer than the stored one
C13_Witness ==
    /\ "ratings" \in run.stages
    /\ run.counts.ratingBatch = 0
    /\ \E i \in 1..Len(files.ratings) :
          /\ EqualAtStoredPrecision(db, files.ratings[i])
          /\ FloatOf[files.ratings[i][2]] # Float32(FloatOf[files.ratings[i][2]])
    /\ db = [run.db0 EXCEPT !.syncState = db.syncState]

\* the tables the import fills: everything but the checkpoint
Imported(d) == [d EXCEPT !.syncState = Null]

\* the import of the same files in one run on the store the aborted run found
Uninterrupted == ImportAll(Val(run.retryOf), files)

\* the current run completed its four stages after an earlier run of the same
\* files had aborted in a stage
RerunCompleted == ~IsNull(run.retryOf) /\ run.stages = AllStages

\* C14: if an import aborts on a store error after any number of committed
\* batches in any stage, a re-run on the same files that completes leaves the
\* titles, subtype records, genre memberships, seasons, episodes and ratings
\* that one uninterrupted run on the original store leaves.
C14_RerunEqualsUninterrupted ==
    (RerunCompleted /\ ~Uninterrupted.err) => Imported(db) = Imported(Uninterrupted.db)

\* no file holds two lines for one title, nor one episode line twice
DistinctIds ==
    /\ \A i, j \in 1..Len(files.basics) : i # j => files.basics[i][1] # files.basics[j][1]
    /\ \A i, j \in 1..Len(files.episodes) : i # j => files.episodes[i] # files.episodes[j]

\* the same on files with distinct ids, where it holds
RerunEqualsUninterruptedOnDistinctIds == DistinctIds => C14_RerunEqualsUninterrupted

\* the kinds (movie, show) the lines of the file give the title
KindsOf(lines, imdb) ==
    {OurType(lines[i][2]) : i \in {j \in 1..Len(lines) :
                                     Len(lines[j]) >= 9 /\ lines[j][1] = imdb}} \ {"ignored"}

\* C20: after the title stage of an import has completed, every title the
\* file classifies as movie or show is stored with exactly one subtype
\* record, a Movie record and no Show record for a movie, a Show record and
\* no Movie record for a show, also when the stored title had the other type.
C20_ExactlyOneSubtypeRecord ==
    "titles" \in run.stages =>
        \A i \in 1..Len(files.basics) :
            KindsOf(files.basics, files.basics[i][1]) # {} =>
                LET tid == TitleIdOf(db, files.basics[i][1])
                    kinds == KindsOf(files.basics, files.basics[i][1])
                IN /\ tid # 0
                   /\ (tid \in db.movies) # (tid \in db.shows)
                   /\ kinds = {"movie"} => tid \in db.movies
                   /\ kinds = {"show"} => tid \in db.shows

\* the lines of title.basics that match a stored title, the syncTitles stage
\* about to scan them
ExistingLines ==
    {i \in 1..Len(files.basics) :
        /\ run.pc = "titles"
        /\ Len(files.basics[i]) >= 9
        /\ OurType(files.basics[i][2]) # "ignored"
        /\ TitleIdOf(db, files.basics[i][1]) # 0}

\* the stored row line i matches and the record of the line
RowOfLine(i) == db.titles[TitleIdOf(db, files.basics[i][1])]

RecordOfLine(i) == TitleRecordOf(files.basics[i])

\* the record is in an update statement of the stage
InUpdateBatch(rec) ==
    \E k \in DOMAIN TitleStmts(ScanTitles(db, files.basics)) :
       /\ TitleStmts(ScanTitles(db, files.basics))[k].op = "updTitles"
       /\ rec \in SeqToSet(TitleStmts(ScanTitles(db, files.basics))[k].rows)

\* null-safe difference of the five fields: a null equals a null only
DiffersNullSafe(row, rec) ==
    \/ row.name # rec.name
    \/ row.startYear # rec.startYear
    \/ row.endYear # rec.endYear
    \/ row.orig # Some(rec.orig)
    \/ row.runtime # rec.runtime

\* the same with a stored original title of NULL read as the empty string
DiffersAsLoaded(row, rec) ==
    \/ row.name # rec.name
    \/ row.startYear # rec.startYear
    \/ row.endYear # rec.endYear
    \/ (IF row.orig = Null THEN "" ELSE Val(row.orig)) # rec.orig
    \/ row.runtime # rec.runtime

\* C34: an existing title is in an update batch exactly if one of display
\* name, start year, end year, original title, runtime differs between the
\* stored row and the record under null-safe equality, a null differing from
\* every value; otherwise it is counted unchanged.
C34_UpdateIffAFieldDiffers ==
    /\ \A i \in ExistingLines :
          InUpdateBatch(RecordOfLine(i)) <=> DiffersNullSafe(RowOfLine(i), RecordOfLine(i))
    /\ ExistingLines # {} =>
          ScanTitles(db, files.basics).unchanged =
             Cardinality({i \in ExistingLines :
                             ~DiffersNullSafe(RowOfLine(i), RecordOfLine(i))})

\* C34 as the code has it: the stored original title is loaded through
\* COALESCE(original_title, ''), so a NULL one equals an empty one of the
\* dataset and differs from every other
C34_UpdateIffAFieldDiffersAsLoaded ==
    /\ \A i \in ExistingLines :
          InUpdateBatch(RecordOfLine(i)) <=> DiffersAsLoaded(RowOfLine(i), RecordOfLine(i))
    /\ ExistingLines # {} =>
          ScanTitles(db, files.basics).unchanged =
             Cardinality({i \in ExistingLines :
                             ~DiffersAsLoaded(RowOfLine(i), RecordOfLine(i))})

\* a title a user created, its original title NULL, meets a line with an empty
\* original title and a year that does not parse, and is left unchanged
C34_Witness ==
    \E i \in ExistingLines :
       /\ RowOfLine(i).orig = Null
       /\ files.basics[i][6] = "x"
       /\ ~InUpdateBatch(RecordOfLine(i))
       /\ ScanTitles(db, files.basics).unchanged = 1

\* the inserts and updates the syncEpisodes stage about to run collects
EpisodeWrites == ScanEpisodes(db, run.epTitles, files.episodes)

\* C35: the syncEpisodes stage submits at most one insert for a (season,
\* episode number) key and at most one update for a stored episode, whatever
\* lines the dataset holds.
C35_OneWritePerEpisode ==
    run.pc = "episodes" =>
       /\ \A j, k \in 1..Len(EpisodeWrites.toInsert) :
             j # k => EpisodeWrites.toInsert[j].key # EpisodeWrites.toInsert[k].key
       /\ \A j, k \in 1..Len(EpisodeWrites.toUpdate) :
             j # k => EpisodeWrites.toUpdate[j].id # EpisodeWrites.toUpdate[k].id

\* the first run, not forced, found the fingerprint of the download equal to
\* the checkpoint
FirstRunFoundNoChange ==
    /\ run.n = 1
    /\ ~run.force
    /\ ~IsNull(run.currentHash)
    /\ run.currentHash = run.previousHash

\* C39: the byte stream hashFiles feeds to the hash determines the content of
\* each file: when the stream of the download equals the stream the checkpoint
\* was computed from, each file of the download has the content it had in the
\* dataset of the checkpoint, also when the two differ only in where one file
\* ends and the next begins.
C39_EqualHashInputMeansEqualFiles ==
    FirstRunFoundNoChange => run.lastDone = Some(files)

\* that holds of the lines of the three files taken together
EqualHashInputMeansEqualLines ==
    FirstRunFoundNoChange =>
       Val(run.lastDone).basics \o Val(run.lastDone).episodes \o Val(run.lastDone).ratings
          = files.basics \o files.episodes \o files.ratings

----------------------------------------------------------------------------
(* The TMDB API as its callers see it.  TMDB is outside the program: every   *)
(* call draws its own answer.  status is "error" for a transport error,      *)
(* "decode" for a 200 whose body does not decode, else the HTTP status.      *)

TMDBNotFound == "TMDB_NOT_FOUND_DO_NOT_RETRY"

ImageNone == "none"

PosterBase == "https://image.tmdb.org/t/p/w500"

StillBase == "https://image.tmdb.org/t/p/w400"

\* an image_url a user supplied through the CRUD API
UserImage == "https://example.org/poster.jpg"

\* the first entry of tv_results or movie_results
FullResult ==
    [id |-> 7, poster |-> "/p1.jpg", lang |-> "en", date |-> "2020-01-01",
     pop |-> 32, oc |-> <<"US">>]

\* an entry TMDB knows little about: no poster, popularity 0
BareResult ==
    [id |-> 7, poster |-> "", lang |-> "", date |-> "", pop |-> 0, oc |-> <<>>]

FindAnswer(status, tv, movie) == [status |-> status, tv |-> tv, movie |-> movie]

\* answers of GET /3/find/{imdb_id}
FindPool ==
    { FindAnswer("error", <<>>, <<>>),
      FindAnswer("500", <<>>, <<>>),
      FindAnswer("decode", <<>>, <<>>),
      FindAnswer("200", <<>>, <<>>),
      FindAnswer("200", <<FullResult>>, <<>>),
      FindAnswer("200", <<>>, <<FullResult>>),
      FindAnswer("200", <<BareResult>>, <<>>),
      FindAnswer("200", <<>>, <<BareResult>>) }

\* answers of GET /3/find/{imdb_id} to fetchTMDBShow and to the row loop of
\* the backfill, throttling among them
LookupPool == FindPool \cup {FindAnswer("429", <<>>, <<>>)}

DetailAnswer(status, poster, lang, release, firstAir, pop, oc, pc, runtime) ==
    [status |-> status, poster |-> poster, lang |-> lang, release |-> release,
     firstAir |-> firstAir, pop |-> pop, oc |-> oc, pc |-> pc, runtime |-> runtime]

\* the zero value of the struct the detail body is decoded into
ZeroDetail(status) == DetailAnswer(status, "", "", "", "", 0, <<>>, <<>>, 0)

\* answers of GET /3/movie/{id} and /3/tv/{id}
DetailPool ==
    { ZeroDetail("error"), ZeroDetail("404"), ZeroDetail("429"), ZeroDetail("decode"),
      ZeroDetail("200"),
      DetailAnswer("200", "/p2.jpg", "fr", "", "2021-05-05", 55, <<>>, <<"FR">>, 95),
      DetailAnswer("200", "", "fr", "2021-05-05", "", 55, <<"FR">>, <<>>, 0) }

\* what the second call of fetchAndStoreTMDBImage (origin country from the
\* details API) yields: a country code, or "" when the call fails or the body
\* names no country
CountryPool == {"", "US"}

\* no call was made
NoAnswer == [status |-> "none"]

----------------------------------------------------------------------------
(* Title enrichment: fetchAndStoreTMDBImage, maybeFetchImage, the merge      *)

\* COALESCE(NULLIF($n, ''), column) and CASE WHEN $n = '' THEN column ELSE $n END
KeepIfEmpty(incoming, column) == IF incoming = "" THEN column ELSE Some(incoming)

\* CASE WHEN $n = 0 THEN column ELSE $n END
KeepIfZero(incoming, column) == IF incoming = 0 THEN column ELSE Some(incoming)

\* OriginCountry[0] when the list is not empty
FirstOr(list, default) == IF Len(list) > 0 THEN list[1] ELSE default

\* the variables posterPath, tmdbID, origLang, releaseDate, popularity and
\* originCountry after the result of the title's own kind and the two fallbacks
FindPick(titleType, r) ==
    LET zero == [poster |-> "", id |-> 0, lang |-> "", date |-> "", pop |-> 0, oc |-> ""]
        take(x, prev) == [poster |-> x.poster, id |-> x.id, lang |-> x.lang,
                          date |-> x.date, pop |-> x.pop, oc |-> FirstOr(x.oc, prev.oc)]
        fallback(v, list) ==
            IF v.poster = "" /\ Len(list) > 0
            THEN IF v.id = 0 THEN take(list[1], v) ELSE [v EXCEPT !.poster = list[1].poster]
            ELSE v
        own == IF titleType = "show" /\ Len(r.tv) > 0 THEN take(r.tv[1], zero)
               ELSE IF titleType = "movie" /\ Len(r.movie) > 0 THEN take(r.movie[1], zero)
               ELSE zero
    IN fallback(fallback(own, r.movie), r.tv)

\* the details call for the origin country is made after this pick
PickNeedsCountry(p) == p.oc = "" /\ p.id # 0

\* the details call for the origin country is made
NeedsCountryCall(titleType, find) ==
    find.status = "200" /\ PickNeedsCountry(FindPick(titleType, find))

\* the SET list of the two UPDATEs of fetchAndStoreTMDBImage: p is the pick,
\* oc the origin country
StoredRow(row, p, oc) ==
    [row EXCEPT !.image = Some(IF p.poster = "" THEN ImageNone ELSE PosterBase \o p.poster),
                !.tmdb = Some(p.id),
                !.lang = KeepIfEmpty(p.lang, @),
                !.release = KeepIfEmpty(p.date, @),
                !.pop = Some(p.pop),
                !.country = KeepIfEmpty(oc, @),
                !.flag = FALSE]

\* UPDATE titles SET ... WHERE imdb_id = $n
UpdateByImdb(d, imdb, p, oc) ==
    [d EXCEPT !.titles = [i \in 1..Len(d.titles) |->
        IF d.titles[i].imdb = Some(imdb) THEN StoredRow(d.titles[i], p, oc) ELSE d.titles[i]]]

\* the two UPDATEs of fetchAndStoreTMDBImage, for a miss and for a hit, and
\* what it returns; country is what the second call yields
StorePick(d, imdb, p, country) ==
    [db |-> UpdateByImdb(d, imdb, p, IF PickNeedsCountry(p) THEN country ELSE p.oc),
     url |-> IF p.poster = "" THEN "" ELSE PosterBase \o p.poster,
     id |-> p.id,
     calls |-> IF PickNeedsCountry(p) THEN 2 ELSE 1]

\* fetchAndStoreTMDBImage with tmdbAPIKey set: the store after it, the URL and
\* the TMDB id it returns and the number of external calls it made
fetchAndStoreTMDBImage(d, imdb, titleType, find, country) ==
    IF imdb = "" THEN [db |-> d, url |-> "", id |-> 0, calls |-> 0]
    ELSE IF find.status # "200" THEN [db |-> d, url |-> "", id |-> 0, calls |-> 1]
    ELSE StorePick(d, imdb, FindPick(titleType, find), country)

\* hasImage: a real image, not the episode sentinel
hasImage(imageURL) ==
    ~IsNull(imageURL) /\ Val(imageURL) # "" /\ Val(imageURL) # TMDBNotFound

needsFetch(imageURL, imdbID) ==
    IF IsNull(imdbID) \/ Val(imdbID) = "" THEN FALSE
    ELSE IsNull(imageURL) \/ Val(imageURL) = ""

\* a request in progress is the store, the Title struct in memory and the
\* external calls made so far by the poster fetch and by the backfill;
\* this is the request after fetchAndStoreTMDBImage returned r
AfterFetch(st, r) ==
    [st EXCEPT !.db = r.db,
               !.t.image = IF r.url # "" THEN Some(r.url) ELSE Null,
               !.t.tmdb = IF r.id # 0 THEN Some(r.id) ELSE @,
               !.posterCalls = @ + r.calls]

\* maybeFetchImage(&title)
maybeFetchImage(st, find, country) ==
    IF ~needsFetch(st.t.image, st.t.imdb) THEN st
    ELSE AfterFetch(st, fetchAndStoreTMDBImage(st.db, Val(st.t.imdb), st.t.type, find, country))

\* the TMDB id the backfill takes from a Find answer
FindId(titleType, r) ==
    IF titleType = "show" /\ Len(r.tv) > 0 THEN r.tv[1].id
    ELSE IF titleType = "movie" /\ Len(r.movie) > 0 THEN r.movie[1].id
    ELSE IF Len(r.movie) > 0 THEN r.movie[1].id
    ELSE IF Len(r.tv) > 0 THEN r.tv[1].id
    ELSE 0

\* the arguments of the merge UPDATE, from the decoded detail
MergeArgs(tmdbID, detail) ==
    [tmdbID |-> tmdbID,
     imageURL |-> IF detail.poster # "" THEN PosterBase \o detail.poster ELSE "",
     lang |-> detail.lang,
     releaseDate |-> IF detail.release = "" THEN detail.firstAir ELSE detail.release,
     pop |-> detail.pop,
     oc |-> FirstOr(detail.oc, FirstOr(detail.pc, "")),
     runtime |-> detail.runtime]

\* a merge that writes whatever the detail call returned
BackfillMergeOverwrite(row, a) ==
    [row EXCEPT !.tmdb = Some(a.tmdbID), !.image = Some(a.imageURL),
                !.lang = Some(a.lang), !.release = Some(a.releaseDate),
                !.pop = Some(a.pop), !.country = Some(a.oc),
                !.runtime = Some(a.runtime), !.flag = FALSE]

\* UPDATE titles SET tmdb_id = $1, image_url = CASE ..., needs_backfill_tmdb = false
BackfillMerge(row, a) ==
    [row EXCEPT !.tmdb = Some(a.tmdbID),
                !.image = KeepIfEmpty(a.imageURL, @),
                !.lang = KeepIfEmpty(a.lang, @),
                !.release = KeepIfEmpty(a.releaseDate, @),
                !.pop = KeepIfZero(a.pop, @),
                !.country = KeepIfEmpty(a.oc, @),
                !.runtime = KeepIfZero(a.runtime, @),
                !.flag = FALSE]

\* what a merge did: the row before, the arguments, the row after
MergeRecord(row, a) == Some([pre |-> row, args |-> a, post |-> BackfillMerge(row, a)])

\* SELECT id, type, imdb_id, tmdb_id FROM titles WHERE needs_backfill_tmdb = true
backfillRow(d, tid) ==
    [id |-> tid, type |-> d.titles[tid].type, imdb |-> d.titles[tid].imdb,
     tmdb |-> d.titles[tid].tmdb]

\* a flag clear that writes the TMDB id 0 as well
ClearFlagAndId(d, tid) == [d EXCEPT !.titles[tid].flag = FALSE, !.titles[tid].tmdb = Some(0)]

\* a statement that leaves the flag as it is
ClearFlagSkipped(d, tid) == d

\* UPDATE titles SET needs_backfill_tmdb = false WHERE id = $1
ClearFlag(d, tid) == [d EXCEPT !.titles[tid].flag = FALSE]

\* the request after the flag of its title was cleared and n calls were made
Cleared(st, n) ==
    [st EXCEPT !.db = ClearFlag(st.db, st.t.id), !.t.flag = FALSE, !.backfillCalls = @ + n]

\* the request after the merge UPDATE with arguments a, n calls made
Merged(st, a, n) ==
    [st EXCEPT !.db.titles[st.t.id] = BackfillMerge(@, a),
               !.merge = MergeRecord(st.db.titles[st.t.id], a),
               !.backfillCalls = @ + n,
               !.t.flag = FALSE,
               !.t.tmdb = Some(a.tmdbID),
               !.t.country = IF a.oc # "" THEN Some(a.oc) ELSE @,
               !.t.image = IF a.imageURL # "" THEN Some(a.imageURL) ELSE @,
               !.t.pop = IF a.pop > 0 THEN Some(a.pop) ELSE @]

\* maybeTMDBBackfill from the detail call on, n calls made before it
BackfillDetail(st, tmdbID, detail, n) ==
    IF tmdbID = 0 THEN Cleared(st, n)
    ELSE IF detail.status \in {"error", "decode"} THEN [st EXCEPT !.backfillCalls = @ + n + 1]
    ELSE IF detail.status # "200" THEN Cleared(st, n + 1)
    ELSE Merged(st, MergeArgs(tmdbID, detail), n + 1)

\* maybeTMDBBackfill(&title) with tmdbAPIKey set
maybeTMDBBackfill(st, find, detail) ==
    IF ~st.t.flag THEN st
    ELSE IF IsNull(st.t.imdb) \/ Val(st.t.imdb) = "" THEN Cleared(st, 0)
    ELSE IF ~IsNull(st.t.tmdb) /\ Val(st.t.tmdb) # 0
    THEN BackfillDetail(st, Val(st.t.tmdb), detail, 0)
    ELSE IF find.status # "200" THEN [st EXCEPT !.backfillCalls = @ + 1]
    ELSE BackfillDetail(st, FindId(st.t.type, find), detail, 1)

\* the Find call of maybeTMDBBackfill is made
BackfillLooksUp(t) ==
    /\ t.flag
    /\ ~IsNull(t.imdb) /\ Val(t.imdb) # ""
    /\ (IsNull(t.tmdb) \/ Val(t.tmdb) = 0)

\* the detail call of maybeTMDBBackfill is made
BackfillAsksDetail(t, find) ==
    /\ t.flag
    /\ ~IsNull(t.imdb) /\ Val(t.imdb) # ""
    /\ IF BackfillLooksUp(t) THEN find.status = "200" /\ FindId(t.type, find) # 0
       ELSE TRUE

\* the backfill row needs the Find call
RowLooksUp(r) ==
    /\ ~IsNull(r.imdb) /\ Val(r.imdb) # ""
    /\ (IsNull(r.tmdb) \/ Val(r.tmdb) = 0)

\* the TMDB id the row loop goes on with
RowTmdbID(r, find) ==
    IF ~RowLooksUp(r) THEN IF IsNull(r.tmdb) THEN 0 ELSE Val(r.tmdb)
    ELSE IF find.status = "200" THEN FindId(r.type, find) ELSE 0

\* the backfill row gets its detail call
RowAsksDetail(r, find) ==
    ~IsNull(r.imdb) /\ Val(r.imdb) # "" /\ RowTmdbID(r, find) # 0

\* what the Find call of the row loop came to: no call, a throttling answer,
\* another failure, a decoded body with no result of either kind, or a result
RowLookup(r, find) ==
    IF ~RowLooksUp(r) THEN ""
    ELSE IF find.status = "429" THEN "throttled"
    ELSE IF find.status # "200" THEN "failed"
    ELSE IF Len(find.tv) = 0 /\ Len(find.movie) = 0 THEN "empty"
    ELSE "found"

\* the http.Get calls of one iteration of the row loop
RowCalls(r, find) ==
    (IF RowLooksUp(r) THEN 1 ELSE 0) + (IF RowAsksDetail(r, find) THEN 1 ELSE 0)

\* the <-rateLimiter.C receives of one iteration of the row loop
RowSlots(r, find) ==
    (IF RowLooksUp(r) THEN 1 ELSE 0) + (IF RowAsksDetail(r, find) THEN 1 ELSE 0)

\* the merge UPDATE of the row loop
RowMerge(d, r, a) ==
    [db |-> [d EXCEPT !.titles[r.id] = BackfillMerge(@, a)],
     merge |-> MergeRecord(d.titles[r.id], a), slept |-> 0]

\* UPDATE titles SET needs_backfill_tmdb = false WHERE id = r.ID; continue
RowCleared(d, r) == [db |-> ClearFlag(d, r.id), merge |-> Null, slept |-> 0]

\* time.Sleep(5 * time.Second), in seconds
throttleSleep == 5

\* a row loop that treats 429 as any other status that is not 200
RowDetailThrottleClears(d, r, tmdbID, detail) ==
    IF detail.status = "error" THEN RowCleared(d, r)
    ELSE IF detail.status = "decode" THEN RowMerge(d, r, MergeArgs(tmdbID, ZeroDetail("200")))
    ELSE IF detail.status # "200" THEN RowCleared(d, r)
    ELSE RowMerge(d, r, MergeArgs(tmdbID, detail))

\* a row loop that goes on to the next row after a transport error
RowDetailSkipsOnError(d, r, tmdbID, detail) ==
    IF detail.status = "error" THEN [db |-> d, merge |-> Null, slept |-> 0]
    ELSE IF detail.status = "429" THEN [db |-> d, merge |-> Null, slept |-> throttleSleep]
    ELSE IF detail.status = "decode" THEN RowMerge(d, r, MergeArgs(tmdbID, ZeroDetail("200")))
    ELSE IF detail.status # "200" THEN RowCleared(d, r)
    ELSE RowMerge(d, r, MergeArgs(tmdbID, detail))

\* the row loop from the detail call on
RowDetail(d, r, tmdbID, detail) ==
    IF detail.status = "error" THEN RowCleared(d, r)
    ELSE IF detail.status = "429" THEN [db |-> d, merge |-> Null, slept |-> throttleSleep]
    ELSE IF detail.status = "decode" THEN RowMerge(d, r, MergeArgs(tmdbID, ZeroDetail("200")))
    ELSE IF detail.status # "200" THEN RowCleared(d, r)
    ELSE RowMerge(d, r, MergeArgs(tmdbID, detail))

\* a row loop that goes on to the next row when no TMDB id was resolved
BackfillRowStepKeepsUnresolved(d, r, find, detail) ==
    IF IsNull(r.imdb) \/ Val(r.imdb) = "" THEN RowCleared(d, r)
    ELSE IF RowTmdbID(r, find) = 0 THEN [db |-> d, merge |-> Null, slept |-> 0]
    ELSE RowDetail(d, r, RowTmdbID(r, find), detail)

\* one iteration of the row loop of tmdbBackfillBatch on the row r of the
\* page: a decode error of the Find body leaves tmdbID at 0, one of the detail
\* body is ignored
BackfillRowStep(d, r, find, detail) ==
    IF IsNull(r.imdb) \/ Val(r.imdb) = "" THEN RowCleared(d, r)
    ELSE IF RowTmdbID(r, find) = 0 THEN RowCleared(d, r)
    ELSE RowDetail(d, r, RowTmdbID(r, find), detail)

----------------------------------------------------------------------------
(* Episodes: getShowByID, fetchAndStoreEpisodeData, maybeFetchEpisodes       *)

\* the elements of a finite set of integers in ascending order
RECURSIVE Ascending(_)
Ascending(S) ==
    IF S = {} THEN <<>>
    ELSE LET m == CHOOSE x \in S : \A y \in S : x <= y
         IN <<m>> \o Ascending(S \ {m})

\* the Title struct of a titles row
Load(d, tid) == [id |-> tid] @@ d.titles[tid]

\* the Episode struct of show_episodes row id
LoadEpisode(d, id) == [id |-> id, num |-> d.episodes[id].key[3]] @@ d.episodes[id]

\* SELECT ... FROM show_episodes WHERE season_id = $1 ORDER BY episode
SeasonEpisodes(d, tid, sn) ==
    LET ids == {i \in 1..Len(d.episodes) :
                    d.episodes[i].key[1] = tid /\ d.episodes[i].key[2] = sn}
        nums == Ascending({d.episodes[i].key[3] : i \in ids})
    IN [k \in 1..Len(nums) |-> LoadEpisode(d, EpisodeIdOf(d, <<tid, sn, nums[k]>>))]

\* getShowByID(id, true): seasons ORDER BY season
getShowByID(d, tid) ==
    LET sns == Ascending({x[2] : x \in {y \in d.seasons : y[1] = tid}})
    IN [title |-> Load(d, tid),
        seasons |-> [k \in 1..Len(sns) |->
                        [num |-> sns[k], episodes |-> SeasonEpisodes(d, tid, sns[k])]]]

EpAnswer(status, still, airDate, name, overview, runtime) ==
    [status |-> status, still |-> still, airDate |-> airDate, name |-> name,
     overview |-> overview, runtime |-> runtime]

\* answers of GET /3/tv/{id}/season/{s}/episode/{e}; "429" is an episode
\* throttled on each of the three attempts
EpPool ==
    { EpAnswer("error", "", "", "", "", 0),
      EpAnswer("404", "", "", "", "", 0),
      EpAnswer("429", "", "", "", "", 0),
      EpAnswer("200", "/s1.jpg", "2020-02-02", "Pilot", "How it began", 45),
      EpAnswer("200", "", "", "", "How it began", 0),
      EpAnswer("200", "", "", "", "", 0) }

\* the answers the episode endpoint can give now: any, or the one answer of a
\* behaviour in which the API answers every call alike
EpisodeAnswers == IF gor.pc = "alt" THEN {gor.answer} ELSE EpPool

\* the named results of fetchAndStoreEpisodeData at their zero values
NoEpisodeData ==
    [imageURL |-> "", airDate |-> "", displayName |-> "", synopsis |-> "",
     runtime |-> 0, ok |-> FALSE, notFound |-> FALSE]

\* for attempt := 0; attempt < 3; attempt++
MaxAttempts == 3

\* fetchAndStoreEpisodeData(tmdbID, seasonNum, episodeNum, episodeID)
fetchAndStoreEpisodeData(d, episodeID, a) ==
    IF a.status = "error" THEN [db |-> d, res |-> NoEpisodeData, calls |-> 1]
    ELSE IF a.status = "429" THEN [db |-> d, res |-> NoEpisodeData, calls |-> MaxAttempts]
    ELSE IF a.status = "404"
    THEN [db |-> d, res |-> [NoEpisodeData EXCEPT !.notFound = TRUE], calls |-> 1]
    ELSE IF a.status # "200" THEN [db |-> d, res |-> NoEpisodeData, calls |-> 1]
    ELSE
      LET imageURL == IF a.still # "" THEN StillBase \o a.still ELSE ""
          dbImageURL == IF imageURL = "" THEN TMDBNotFound ELSE imageURL
      IN [db |-> [d EXCEPT !.episodes[episodeID] =
                      [@ EXCEPT !.image = Some(dbImageURL),
                                !.airDate = KeepIfEmpty(a.airDate, @),
                                !.runtime = KeepIfZero(a.runtime, @),
                                !.name = KeepIfEmpty(a.name, @),
                                !.synopsis = Some(a.overview)]],
          res |-> [imageURL |-> imageURL, airDate |-> a.airDate, displayName |-> a.name,
                   synopsis |-> a.overview, runtime |-> a.runtime,
                   ok |-> TRUE, notFound |-> FALSE],
          calls |-> 1]

\* stripEpisodeSentinels(show)
stripEpisodeSentinels(seasons) ==
    [si \in 1..Len(seasons) |->
        [seasons[si] EXCEPT !.episodes = [ei \in 1..Len(seasons[si].episodes) |->
            IF seasons[si].episodes[ei].image = Some(TMDBNotFound)
            THEN [seasons[si].episodes[ei] EXCEPT !.image = Null]
            ELSE seasons[si].episodes[ei]]]]

\* the epRefs of one season, in episode order
SeasonRefs(seasons, si) ==
    LET eps == seasons[si].episodes
        want(ei) == \/ IsNull(eps[ei].image)
                    \/ Val(eps[ei].image) = ""
                    \/ Val(eps[ei].image) = TMDBNotFound
        idx == Ascending({ei \in 1..Len(eps) : want(ei)})
    IN [k \in 1..Len(idx) |->
           [seasonIdx |-> si, episodeIdx |-> idx[k], seasonNum |-> seasons[si].num,
            episodeNum |-> eps[idx[k]].num, episodeID |-> eps[idx[k]].id]]

\* toFetch: episodes with no image or holding the sentinel, season by season
toFetch(seasons) == Flatten([si \in 1..Len(seasons) |-> SeasonRefs(seasons, si)])

\* 24*time.Hour, in hours
Cooldown == 24

\* time.Since(*show.Title.EpisodesCheckedAt) < 24*time.Hour
InCooldown(t, now) == ~IsNull(t.checkedAt) /\ now - Val(t.checkedAt) < Cooldown

\* seasonNotFound[sn]: how many of the results of season sn there are and how
\* many of them are not-found
seasonStats(results, sn) ==
    LET mine == {i \in 1..Len(results) : results[i].ref.seasonNum = sn}
    IN [total |-> Cardinality(mine),
        notFound |-> Cardinality({i \in mine : results[i].notFound})]

\* episodeOffset[sn]: the episodes of the seasons listed before season sn
RECURSIVE episodeOffsetFrom(_, _, _, _)
episodeOffsetFrom(seasons, sn, k, cumulative) ==
    IF k > Len(seasons) THEN 0
    ELSE IF seasons[k].num = sn THEN cumulative
    ELSE episodeOffsetFrom(seasons, sn, k + 1, cumulative + Len(seasons[k].episodes))

\* an offset that takes every earlier season to hold one episode
episodeOffsetBySeasonNumber(seasons, sn) == sn - 1

episodeOffset(seasons, sn) == episodeOffsetFrom(seasons, sn, 1, 0)

\* a fallback that retries every not-found episode outside season one
omniRetryAnyNotFound(results) ==
    Ascending({i \in 1..Len(results) :
                 results[i].notFound /\ results[i].ref.seasonNum # 1})

\* omniRetry: indices into results
omniRetry(results) ==
    Ascending({i \in 1..Len(results) :
                 /\ results[i].notFound
                 /\ seasonStats(results, results[i].ref.seasonNum).notFound
                        = seasonStats(results, results[i].ref.seasonNum).total
                 /\ results[i].ref.seasonNum # 1})

----------------------------------------------------------------------------
(* The server: detail views, the CRUD update, the clock *)

\* what the template or the JSON encoder is handed
Response(t, seasons) ==
    Some([image |-> t.image,
          episodes |-> Flatten([si \in 1..Len(seasons) |->
                          [ei \in 1..Len(seasons[si].episodes) |->
                              seasons[si].episodes[ei].image]])])

\* the answers a call can get, or NoAnswer when the call is not made
Answers(made, pool) == IF made THEN pool ELSE {NoAnswer}

Countries(made) == IF made THEN CountryPool ELSE {""}

\* a request at its start
NewRequest(d, t) ==
    [db |-> d, t |-> t, posterCalls |-> 0, backfillCalls |-> 0, merge |-> Null]

\* the server record of a view of title tid whose request state is st; the
\* handlers call tmdbClient.Get and http.Get with no limiter before them
Viewed(op, tid, st, resp, asked) ==
    [now |-> srv.now, op |-> op, tid |-> tid,
     resp |-> resp, posterCalls |-> st.posterCalls, backfillCalls |-> st.backfillCalls,
     asked |-> asked, merge |-> st.merge, slots |-> 0]

\* the response of a movie view and the store it leaves
MovieRespond(tid, json, st) ==
    /\ db' = st.db
    /\ srv' = Viewed("viewMovie", tid, st, Response(st.t, <<>>), {})

\* maybeTMDBBackfill(&movie.Title), which the page makes and the JSON API does not
MovieBackfill(tid, json, st) ==
    IF json THEN MovieRespond(tid, json, st)
    ELSE \E find \in Answers(BackfillLooksUp(st.t), FindPool) :
         \E detail \in Answers(BackfillAsksDetail(st.t, find), DetailPool) :
            MovieRespond(tid, json, maybeTMDBBackfill(st, find, detail))

\* maybeFetchImage(&movie.Title)
MovieFetch(tid, json, st) ==
    \E find \in Answers(needsFetch(st.t.image, st.t.imdb), FindPool) :
    \E country \in Countries(needsFetch(st.t.image, st.t.imdb)
                             /\ NeedsCountryCall(st.t.type, find)) :
       MovieBackfill(tid, json, maybeFetchImage(st, find, country))

\* handleMoviePage (json = FALSE) and GET /api/movies/{id} (json = TRUE)
ViewMovie ==
    /\ epf.pc = "idle"
    /\ \E tid \in db.movies, json \in BOOLEAN :
         MovieFetch(tid, json, NewRequest(db, Load(db, tid)))
    /\ UNCHANGED <<files, img, run, epf, gor>>

\* the Find call of maybeFetchEpisodes is made
EpisodesLookUp(t) ==
    /\ ~IsNull(t.imdb) /\ Val(t.imdb) # ""
    /\ (IsNull(t.tmdb) \/ Val(t.tmdb) = 0)

\* the gate without the daily cooldown
EpisodesGateNoCooldown(st, seasons, now, tmdbID) ==
    [st |-> st, tmdbID |-> tmdbID,
     go |-> IF tmdbID = 0 THEN "return"
            ELSE IF Len(toFetch(seasons)) = 0 THEN "strip"
            ELSE "fetch"]

\* maybeFetchEpisodes after the TMDB id is known: how it goes on ("return",
\* "strip" or "fetch")
EpisodesGate(st, seasons, now, tmdbID) ==
    [st |-> st, tmdbID |-> tmdbID,
     go |-> IF tmdbID = 0 THEN "return"
            ELSE IF InCooldown(st.t, now) THEN "strip"
            ELSE IF Len(toFetch(seasons)) = 0 THEN "strip"
            ELSE "fetch"]

\* the request after fetchAndStoreTMDBImage was called for the TMDB id alone
AfterIdFetch(st, r) ==
    [st EXCEPT !.db = r.db, !.posterCalls = @ + r.calls,
               !.t.tmdb = IF r.id # 0 THEN Some(r.id) ELSE @]

\* maybeFetchEpisodes after fetchAndStoreTMDBImage returned r
EpisodesResolved(st, seasons, now, r) == EpisodesGate(AfterIdFetch(st, r), seasons, now, r.id)

\* maybeFetchEpisodes up to the collection of toFetch
EpisodesPrelude(st, seasons, now, find, country) ==
    IF IsNull(st.t.imdb) \/ Val(st.t.imdb) = "" THEN [st |-> st, tmdbID |-> 0, go |-> "return"]
    ELSE IF ~IsNull(st.t.tmdb) /\ Val(st.t.tmdb) # 0
    THEN EpisodesGate(st, seasons, now, Val(st.t.tmdb))
    ELSE EpisodesResolved(st, seasons, now,
                          fetchAndStoreTMDBImage(st.db, Val(st.t.imdb), "show", find, country))

\* results as allocated: one zero epResult per epRef
PendingResults(refs) ==
    [i \in 1..Len(refs) |-> [ref |-> refs[i], done |-> FALSE] @@ NoEpisodeData]

\* the view goes on to the episode goroutines, or responds
ShowRespond(tid, json, show, e) ==
    /\ db' = e.st.db
    /\ IF e.go = "fetch"
       THEN /\ srv' = Viewed("viewShow", tid, e.st, Null, {})
            /\ epf' = [pc |-> "fetch", t |-> e.st.t, seasons |-> show.seasons,
                       tmdbID |-> e.tmdbID,
                       results |-> PendingResults(toFetch(show.seasons)),
                       first |-> <<>>, retry |-> <<>>, retried |-> {}]
       ELSE /\ srv' = Viewed("viewShow", tid, e.st,
                             Response(e.st.t, IF e.go = "strip"
                                              THEN stripEpisodeSentinels(show.seasons)
                                              ELSE show.seasons), {})
            /\ epf' = epf

\* maybeFetchEpisodes(&show)
ShowEpisodes(tid, json, show, st) ==
    \E find \in Answers(EpisodesLookUp(st.t), FindPool) :
    \E country \in Countries(EpisodesLookUp(st.t) /\ NeedsCountryCall("show", find)) :
       ShowRespond(tid, json, show, EpisodesPrelude(st, show.seasons, srv.now, find, country))

\* maybeTMDBBackfill(&show.Title), which the page makes and the JSON API does not
ShowBackfill(tid, json, show, st) ==
    IF json THEN ShowEpisodes(tid, json, show, st)
    ELSE \E find \in Answers(BackfillLooksUp(st.t), FindPool) :
         \E detail \in Answers(BackfillAsksDetail(st.t, find), DetailPool) :
            ShowEpisodes(tid, json, show, maybeTMDBBackfill(st, find, detail))

\* maybeFetchImage(&show.Title)
ShowFetch(tid, json, show) ==
    \E find \in Answers(needsFetch(show.title.image, show.title.imdb), FindPool) :
    \E country \in Countries(needsFetch(show.title.image, show.title.imdb)
                             /\ NeedsCountryCall(show.title.type, find)) :
       ShowBackfill(tid, json, show, maybeFetchImage(NewRequest(db, show.title), find, country))

\* handleShowPage (json = FALSE) and GET /api/shows/{id} (json = TRUE), up to
\* the start of the episode goroutines
ViewShow ==
    /\ epf.pc = "idle"
    /\ \E tid \in db.shows, json \in BOOLEAN : ShowFetch(tid, json, getShowByID(db, tid))
    /\ UNCHANGED <<files, img, run, gor>>

\* the record of one fetchAndStoreEpisodeData call: the round, the index into
\* results, the season and episode asked of TMDB, and which call for that
\* index and round it is
Asked(log, round, idx, episodeID, season, episode) ==
    [round |-> round, idx |-> idx, episodeID |-> episodeID, season |-> season,
     episode |-> episode,
     nth |-> 1 + Cardinality({q \in log : q.round = round /\ q.idx = idx})]

\* one episode goroutine of the first round.  The goroutines write disjoint
\* rows and disjoint entries of results, so they are taken in index order.
EpisodeFetch ==
    /\ epf.pc = "fetch"
    /\ \E i \in 1..Len(epf.results) :
         /\ ~epf.results[i].done
         /\ \A j \in 1..(i - 1) : epf.results[j].done
         /\ \E a \in EpisodeAnswers :
              LET ref == epf.results[i].ref
                  r == fetchAndStoreEpisodeData(db, ref.episodeID, a)
              IN /\ db' = r.db
                 /\ epf' = [epf EXCEPT !.results[i] = [ref |-> ref, done |-> TRUE] @@ r.res]
                 /\ srv' = [srv EXCEPT !.op = "episode",
                               !.asked = @ \cup {Asked(@, 1, i, ref.episodeID,
                                                        ref.seasonNum, ref.episodeNum)}]
    /\ UNCHANGED <<files, img, run, gor>>

\* wg.Wait(), then seasonNotFound, episodeOffset and omniRetry
PlanOmni ==
    /\ epf.pc = "fetch"
    /\ \A i \in 1..Len(epf.results) : epf.results[i].done
    /\ epf' = [epf EXCEPT !.pc = "omni", !.first = epf.results,
                          !.retry = omniRetry(epf.results)]
    /\ srv' = [srv EXCEPT !.op = "plan"]
    /\ UNCHANGED <<db, files, img, run, gor>>

\* one goroutine of the omniseason round, in index order as well
OmniFetch ==
    /\ epf.pc = "omni"
    /\ \E k \in 1..Len(epf.retry) :
         /\ epf.retry[k] \notin epf.retried
         /\ \A j \in 1..(k - 1) : epf.retry[j] \in epf.retried
         /\ \E a \in EpisodeAnswers :
              LET idx == epf.retry[k]
                  ref == epf.results[idx].ref
                  absEp == episodeOffset(epf.seasons, ref.seasonNum) + ref.episodeNum
                  r == fetchAndStoreEpisodeData(db, ref.episodeID, a)
              IN /\ db' = r.db
                 /\ epf' = [epf EXCEPT !.retried = @ \cup {idx},
                               !.results[idx] = IF r.res.ok
                                                THEN [ref |-> ref, done |-> TRUE] @@ r.res
                                                ELSE @]
                 /\ srv' = [srv EXCEPT !.op = "omni",
                               !.asked = @ \cup {Asked(@, 2, idx, ref.episodeID,
                                                        1, absEp)}]
    /\ UNCHANGED <<files, img, run, gor>>

\* the index of the ok result for episode (si, ei), 0 if there is none
ResultFor(results, si, ei) ==
    LET hits == {i \in 1..Len(results) :
                    /\ results[i].ok
                    /\ results[i].ref.seasonIdx = si
                    /\ results[i].ref.episodeIdx = ei}
    IN IF hits = {} THEN 0 ELSE CHOOSE i \in hits : TRUE

\* "Update in-memory structs for immediate rendering"
ApplyResults(seasons, results) ==
    [si \in 1..Len(seasons) |->
        [seasons[si] EXCEPT !.episodes = [ei \in 1..Len(seasons[si].episodes) |->
            LET ep == seasons[si].episodes[ei]
                i == ResultFor(results, si, ei)
            IN IF i = 0 THEN ep
               ELSE [ep EXCEPT
                       !.image = IF results[i].imageURL # "" THEN Some(results[i].imageURL) ELSE @,
                       !.airDate = IF results[i].airDate # "" THEN Some(results[i].airDate) ELSE @,
                       !.name = IF results[i].displayName # "" /\ IsNull(@)
                                THEN Some(results[i].displayName) ELSE @,
                       !.synopsis = IF results[i].synopsis # "" THEN Some(results[i].synopsis) ELSE @,
                       !.runtime = IF results[i].runtime # 0 THEN Some(results[i].runtime) ELSE @]]]]

\* wg2.Wait() and the rest of maybeFetchEpisodes, then the response
FinishEpisodes ==
    /\ epf.pc = "omni"
    /\ epf.retried = SeqToSet(epf.retry)
    /\ LET lost == {epf.results[i].ref.episodeID :
                       i \in {j \in 1..Len(epf.results) :
                                ~epf.results[j].ok /\ epf.results[j].notFound}}
           d1 == [db EXCEPT !.episodes = [i \in 1..Len(db.episodes) |->
                     IF i \in lost THEN [db.episodes[i] EXCEPT !.image = Some(TMDBNotFound)]
                     ELSE db.episodes[i]]]
           shown == stripEpisodeSentinels(ApplyResults(epf.seasons, epf.results))
       IN /\ db' = [d1 EXCEPT !.titles[epf.t.id].checkedAt = Some(srv.now)]
          /\ srv' = [srv EXCEPT !.op = "finish", !.resp = Response(epf.t, shown)]
          /\ epf' = IdleEpf
    /\ UNCHANGED <<files, img, run, gor>>

----------------------------------------------------------------------------
(* Section 2 of the sync process: tmdbBackfillBatch *)

batchLimit == 2     \* const batchLimit = 100, scaled down

\* COALESCE for the sort key of ORDER BY num_votes DESC NULLS LAST
VoteRank(row) == IF IsNull(row.votes) THEN -1 ELSE Val(row.votes)

\* a page query without its ORDER BY
PagesInAnyOrder(d) ==
    LET flagged == {i \in TitleIds(d) : d.titles[i].flag}
        n == Cardinality(flagged)
        orders == {p \in [1..n -> flagged] : \A i, j \in 1..n : i # j => p[i] # p[j]}
        cut(p) == SubSeq(p, 1, IF n < batchLimit THEN n ELSE batchLimit)
    IN {[k \in 1..Len(cut(p)) |-> backfillRow(d, cut(p)[k])] : p \in orders}

\* the pages the query can return: the flagged rows by votes, ties in any
\* order, cut at batchLimit
Pages(d) ==
    LET flagged == {i \in TitleIds(d) : d.titles[i].flag}
        n == Cardinality(flagged)
        orders == {p \in [1..n -> flagged] :
                     /\ \A i, j \in 1..n : i # j => p[i] # p[j]
                     /\ \A i, j \in 1..n :
                          i < j => VoteRank(d.titles[p[i]]) >= VoteRank(d.titles[p[j]])}
        cut(p) == SubSeq(p, 1, IF n < batchLimit THEN n ELSE batchLimit)
    IN {[k \in 1..Len(cut(p)) |-> backfillRow(d, cut(p)[k])] : p \in orders}

\* the page query; an empty page ends the drain
BackfillQuery ==
    /\ run.pc = "backfill"
    /\ run.key
    /\ run.page = <<>>
    /\ epf.pc = "idle"
    /\ \E page \in Pages(db) :
         run' = [run EXCEPT !.page = page, !.pc = IF page = <<>> THEN "done" ELSE @]
    /\ srv' = After("query", 0, Null)
    /\ UNCHANGED <<db, files, img, epf, gor>>

MaxThrottles == 2    \* 429 answers TMDB gives to the detail calls of a drain

\* the next row of the page; TMDB throttles as often as it likes, or, counted,
\* MaxThrottles times in the drain
RowOfPage(counted) ==
    /\ run.pc = "backfill"
    /\ run.page # <<>>
    /\ epf.pc = "idle"
    /\ LET r == Head(run.page)
       IN \E find \in Answers(RowLooksUp(r), LookupPool) :
          \E detail \in Answers(RowAsksDetail(r, find), DetailPool) :
            LET out == BackfillRowStep(db, r, find, detail)
                more == IF counted /\ detail.status = "429" THEN 1 ELSE 0
            IN /\ run.throttled + more <= MaxThrottles
               /\ db' = out.db
               /\ srv' = [After("backfill", r.id, out.merge) EXCEPT
                             !.detail = IF RowAsksDetail(r, find) THEN detail.status ELSE "",
                             !.slept = out.slept,
                             !.lookup = RowLookup(r, find),
                             !.backfillCalls = RowCalls(r, find),
                             !.slots = RowSlots(r, find)]
               /\ run' = [run EXCEPT !.page = Tail(@), !.throttled = @ + more]
    /\ UNCHANGED <<files, img, epf, gor>>

\* the row loop with the views, the CRUD API and the clock around it
BackfillRow == RowOfPage(FALSE)

\* the row loop of a drain that TMDB throttles finitely often
DrainRow == RowOfPage(TRUE)

----------------------------------------------------------------------------
(* The CRUD API and the clock *)

\* PUT /api/movies/{id} and PUT /api/shows/{id}: the request repeats the
\* stored name, years and imdb_id and gives an image_url or null
ApiPutTitle ==
    /\ epf.pc = "idle"
    /\ \E tid \in db.movies \cup db.shows, image \in {Null, Some(UserImage)} :
         /\ db.titles[tid].image # image
         /\ db' = [db EXCEPT !.titles[tid].image = image]
         /\ srv' = After("put", tid, Null)
    /\ UNCHANGED <<files, img, run, epf, gor>>

MaxClock == 24      \* hours the clock of a behaviour runs to

TickHours == 24     \* hours between two observations of the clock

Tick ==
    /\ epf.pc = "idle"
    /\ srv.now + TickHours <= MaxClock
    /\ srv' = [After("tick", 0, Null) EXCEPT !.now = @ + TickHours]
    /\ UNCHANGED <<db, files, img, run, epf, gor>>

----------------------------------------------------------------------------
(* The store the server and the backfill start from *)

MaxShowEpisodes == 2    \* episodes of a show, over all its seasons

RECURSIVE SumSeq(_)
SumSeq(q) == IF Len(q) = 0 THEN 0 ELSE Head(q) + SumSeq(Tail(q))

\* the episode counts of seasons 1, 2, ... of a show; a season the dataset
\* lists no episode of has the count 0 and no row in the store
Shapes(n) ==
    {sh \in SeqsUpTo(0..n, n) : SumSeq(sh) <= n /\ (sh = <<>> \/ sh[Len(sh)] > 0)}

\* the shows of the specification of the gate: no episode, one episode in
\* season 1, one episode in season 2
GateShapes == {<<>>, <<1>>, <<0, 1>>}

\* the decimal numerals of the dataset
NumStr == <<"1", "2", "3", "4", "5", "6", "7">>

\* a dataset with the movie tt1
MovieData ==
    [basics |-> << <<"tt1", "movie", "A", "A", "0", "2020", "\\N", "90", "Drama">> >>,
     episodes |-> <<>>,
     ratings |-> << <<"tt1", "7.1", "100">> >>]

\* a dataset with the show tt2 and its episodes, season by season
ShowData(shape) ==
    [basics |-> << <<"tt2", "tvSeries", "S", "S", "0", "2021", "\\N", "\\N", "Drama">>,
                   <<"tt3", "tvEpisode", "E", "E", "0", "\\N", "\\N", "\\N", "\\N">> >>,
     episodes |-> Flatten([sn \in 1..Len(shape) |->
                     [e \in 1..shape[sn] |-> <<"tt3", "tt2", NumStr[sn], NumStr[e]>>]]),
     ratings |-> <<>>]

GateData == {MovieData} \cup {ShowData(sh) : sh \in GateShapes}

\* the store right after the import of one of the datasets; the sync process
\* stands at section 2 with TMDB_API_KEY set
InitGate ==
    /\ files \in GateData
    /\ db = ImportAll(EmptyDb, files).db
    /\ run = [IdleRun(1, Some(files)) EXCEPT !.pc = "backfill", !.key = TRUE, !.db0 = db]
    /\ srv = IdleSrv
    /\ epf = IdleEpf
    /\ img = IdleImg
    /\ gor = IdleGor

NextGate ==
    \/ ViewMovie
    \/ ViewShow
    \/ EpisodeFetch
    \/ PlanOmni
    \/ OmniFetch
    \/ FinishEpisodes
    \/ BackfillQuery
    \/ BackfillRow
    \/ ApiPutTitle
    \/ Tick

SpecGate == InitGate /\ [][NextGate]_vars

----------------------------------------------------------------------------
(* The drain alone: section 2 of a sync process on a store the import filled, *)
(* TMDB throttling finitely often.  The process is one sequential loop, so a  *)
(* step that can be taken is taken.                                           *)

\* the movie tt1 and the show tt2, with and without votes for the movie
DrainData ==
    { [basics |-> << <<"tt1", "movie", "A", "A", "0", "2020", "\\N", "90", "Drama">>,
                     <<"tt2", "tvSeries", "S", "S", "0", "2021", "\\N", "\\N", "Drama">> >>,
       episodes |-> <<>>,
       ratings |-> rt] : rt \in {<<>>, << <<"tt1", "7.1", "100">> >>} }

\* the store the import filled, with or without a movie a user created
InitDrain ==
    /\ files \in DrainData
    /\ db \in {ImportAll(EmptyDb, files).db, CreateMovie(ImportAll(EmptyDb, files).db, "N", Null)}
    /\ run = [IdleRun(1, Some(files)) EXCEPT !.pc = "backfill", !.key = TRUE, !.db0 = db]
    /\ srv = IdleSrv
    /\ epf = IdleEpf
    /\ img = IdleImg
    /\ gor = IdleGor

NextDrain ==
    \/ BackfillQuery
    \/ DrainRow

SpecDrain ==
    InitDrain /\ [][NextDrain]_vars /\ WF_vars(BackfillQuery) /\ WF_vars(DrainRow)

----------------------------------------------------------------------------
(* The sync-images process: main, syncShow, fetchTMDBShow, fetchEpisodeData  *)

\* the shows the query of main selects, ORDER BY s.id
ShowsToSync(d, skipSynced) ==
    Ascending({t \in d.shows :
                 /\ ~IsNull(d.titles[t].imdb) /\ Val(d.titles[t].imdb) # ""
                 /\ (skipSynced => IsNull(d.titles[t].image))})

\* what fetchTMDBShow returns for a decoded body: the first TV result, else
\* the first movie result, else zero values
ShowPick(a) ==
    LET take(x) == [id |-> x.id, poster |-> IF x.poster # "" THEN PosterBase \o x.poster ELSE "",
                    lang |-> x.lang, date |-> x.date, pop |-> x.pop, oc |-> FirstOr(x.oc, "")]
    IN IF Len(a.tv) > 0 THEN take(a.tv[1])
       ELSE IF Len(a.movie) > 0 THEN take(a.movie[1])
       ELSE [id |-> 0, poster |-> "", lang |-> "", date |-> "", pop |-> 0, oc |-> ""]

\* the two UPDATEs of syncShow on the titles row: with a poster, and with
\* other metadata only
ShowRowSynced(row, p) ==
    IF p.poster # ""
    THEN [row EXCEPT !.image = Some(p.poster), !.lang = KeepIfEmpty(p.lang, @),
                     !.release = KeepIfEmpty(p.date, @), !.pop = Some(p.pop),
                     !.country = KeepIfEmpty(p.oc, @)]
    ELSE IF p.lang # "" \/ p.date # "" \/ p.oc # ""
    THEN [row EXCEPT !.lang = KeepIfEmpty(p.lang, @), !.release = KeepIfEmpty(p.date, @),
                     !.pop = Some(p.pop), !.country = KeepIfEmpty(p.oc, @)]
    ELSE row

\* the episodes of the show, ORDER BY ss.season, e.episode
ShowEpisodeIds(d, tid) ==
    LET ids == {i \in 1..Len(d.episodes) : d.episodes[i].key[1] = tid}
        rank(i) == d.episodes[i].key[2] * (Len(d.episodes) + MaxShowEpisodes + 1)
                   + d.episodes[i].key[3]
        ranks == Ascending({rank(i) : i \in ids})
    IN [k \in 1..Len(ranks) |-> CHOOSE i \in ids : rank(i) = ranks[k]]

\* the UPDATE of syncShow on the show_episodes row: the EpisodeData pointers
\* are nil for an empty still, an empty date, a runtime of 0
EpisodeRowSynced(row, a) ==
    [row EXCEPT !.image = IF a.still # "" THEN Some(PosterBase \o a.still) ELSE Null,
                !.airDate = IF a.airDate # "" THEN Some(a.airDate) ELSE Null,
                !.runtime = IF a.runtime > 0 THEN Some(a.runtime) ELSE Null]

\* the process after syncShow returned: the next show of the loop, or the end
NextShow(i) ==
    [i EXCEPT !.shows = Tail(@), !.tmdbID = 0, !.eps = <<>>,
              !.pc = IF Len(i.shows) > 1 THEN "lookup" ELSE "done"]

\* the process after an episode of the loop of syncShow
NextEpisode(i) ==
    [i EXCEPT !.eps = Tail(@), !.pc = IF Len(i.eps) > 1 THEN "episode" ELSE "checked"]

\* main up to the loop over the shows; -skip-synced is set or not
ImagesStart ==
    /\ img.pc = "idle"
    /\ \E skipSynced \in BOOLEAN :
         LET shows == ShowsToSync(db, skipSynced)
         IN img' = [IdleImg EXCEPT !.shows = shows,
                                   !.pc = IF shows = <<>> THEN "done" ELSE "lookup"]
    /\ UNCHANGED <<db, files, run, srv, epf, gor>>

\* one request of fetchTMDBShow and, unless it is throttled, syncShow up to
\* its episode loop
ShowLookup ==
    /\ img.pc = "lookup"
    /\ \E a \in LookupPool :
         LET tid == Head(img.shows)
             p == ShowPick(a)
         IN IF a.status = "429"
            THEN /\ img' = [img EXCEPT !.pc = "lookupSleep"]
                 /\ db' = db
            ELSE IF a.status # "200" \/ p.id = 0
            THEN /\ img' = NextShow(img)
                 /\ db' = db
            ELSE /\ db' = [db EXCEPT !.titles[tid] = ShowRowSynced(@, p)]
                 /\ img' = [img EXCEPT !.tmdbID = p.id,
                                       !.eps = ShowEpisodeIds(db, tid),
                                       !.pc = IF ShowEpisodeIds(db, tid) = <<>>
                                              THEN "checked" ELSE "episode"]
    /\ UNCHANGED <<files, run, srv, epf, gor>>

\* time.Sleep(10 * time.Second); return fetchTMDBShow(imdbID)
LookupRetry ==
    /\ img.pc = "lookupSleep"
    /\ img' = [img EXCEPT !.pc = "lookup"]
    /\ UNCHANGED <<db, files, run, srv, epf, gor>>

\* one request of fetchEpisodeData and, unless it is throttled, the rest of
\* the iteration of the episode loop
EpisodeData ==
    /\ img.pc = "episode"
    /\ \E a \in EpPool :
         LET id == Head(img.eps)
         IN IF a.status = "429"
            THEN /\ img' = [img EXCEPT !.pc = "episodeSleep"]
                 /\ db' = db
            ELSE /\ img' = NextEpisode(img)
                 /\ db' = IF a.status = "200"
                          THEN [db EXCEPT !.episodes[id] = EpisodeRowSynced(@, a)]
                          ELSE db
    /\ UNCHANGED <<files, run, srv, epf, gor>>

\* time.Sleep(10 * time.Second); return fetchEpisodeData(tmdbID, season, episode)
EpisodeRetry ==
    /\ img.pc = "episodeSleep"
    /\ img' = [img EXCEPT !.pc = "episode"]
    /\ UNCHANGED <<db, files, run, srv, epf, gor>>

\* UPDATE titles SET episodes_checked_at = NOW(), and the next show
ShowChecked ==
    /\ img.pc = "checked"
    /\ db' = [db EXCEPT !.titles[Head(img.shows)].checkedAt = Some(srv.now)]
    /\ img' = NextShow(img)
    /\ UNCHANGED <<files, run, srv, epf, gor>>

\* the store after the import of a show with up to MaxShowEpisodes episodes;
\* no other process runs
InitImages ==
    /\ files \in {ShowData(sh) : sh \in Shapes(MaxShowEpisodes)}
    /\ db = ImportAll(EmptyDb, files).db
    /\ run = [IdleRun(1, Some(files)) EXCEPT !.pc = "done", !.db0 = db]
    /\ srv = IdleSrv
    /\ epf = IdleEpf
    /\ img = IdleImg
    /\ gor = IdleGor

NextImages ==
    \/ ImagesStart
    \/ ShowLookup
    \/ LookupRetry
    \/ EpisodeData
    \/ EpisodeRetry
    \/ ShowChecked

\* the process is one sequential program: a step it can take, it takes
SpecImages ==
    InitImages /\ [][NextImages]_vars /\ WF_vars(NextImages)

----------------------------------------------------------------------------
(* Two GET /api/movies/{id} requests for the same movie, each served by its  *)
(* own goroutine: getMovieByID, maybeFetchImage, the response.  Nothing      *)
(* orders the steps of one against the steps of the other.                   *)

\* a handler goroutine that has not read the store yet
NewHandler == [pc |-> "load", pick |-> Null, oc |-> ""]

\* handler g of the race
Handler(g) == gor.reqs[g]

\* getMovieByID and the needsFetch test of maybeFetchImage
ApiLoad(g) ==
    /\ gor.pc = "race"
    /\ Handler(g).pc = "load"
    /\ LET t == Load(db, gor.tid)
       IN gor' = [gor EXCEPT !.reqs[g].pc =
                     IF needsFetch(t.image, t.imdb) THEN "find" ELSE "done"]
    /\ UNCHANGED <<db, files, run, srv, epf, img>>

\* fetchAndStoreTMDBImage up to its UPDATE: the Find call, the pick and the
\* details call for the origin country
ApiFind(g) ==
    /\ gor.pc = "race"
    /\ Handler(g).pc = "find"
    /\ \E find \in FindPool :
       \E country \in Countries(NeedsCountryCall(db.titles[gor.tid].type, find)) :
          LET p == FindPick(db.titles[gor.tid].type, find)
          IN gor' = IF find.status # "200"
                    THEN [gor EXCEPT !.reqs[g].pc = "done"]
                    ELSE [gor EXCEPT !.reqs[g] =
                            [pc |-> "store", pick |-> Some(p),
                             oc |-> IF PickNeedsCountry(p) THEN country ELSE p.oc]]
    /\ UNCHANGED <<db, files, run, srv, epf, img>>

\* the UPDATE of fetchAndStoreTMDBImage and the response
ApiStore(g) ==
    /\ gor.pc = "race"
    /\ Handler(g).pc = "store"
    /\ db' = UpdateByImdb(db, Val(db.titles[gor.tid].imdb), Val(Handler(g).pick), Handler(g).oc)
    /\ gor' = [gor EXCEPT !.reqs[g].pc = "done", !.stored = Append(@, g)]
    /\ UNCHANGED <<files, run, srv, epf, img>>

\* the store right after the import of the movie, two requests for it accepted
InitRace ==
    /\ files = MovieData
    /\ db = ImportAll(EmptyDb, files).db
    /\ run = [IdleRun(1, Some(files)) EXCEPT !.pc = "done", !.db0 = db]
    /\ srv = IdleSrv
    /\ epf = IdleEpf
    /\ img = IdleImg
    /\ gor = [pc |-> "race", tid |-> TitleIdOf(db, "tt1"), row0 |-> db.titles[TitleIdOf(db, "tt1")],
              reqs |-> <<NewHandler, NewHandler>>, stored |-> <<>>]

NextRace ==
    \/ \E g \in 1..2 : ApiLoad(g)
    \/ \E g \in 1..2 : ApiFind(g)
    \/ \E g \in 1..2 : ApiStore(g)

SpecRace == InitRace /\ [][NextRace]_vars

----------------------------------------------------------------------------
(* The goroutines of one maybeFetchEpisodes invocation, side by side: each   *)
(* takes a slot of sem, calls fetchAndStoreEpisodeData, writes its entry of  *)
(* results and gives the slot back.  They write disjoint rows and entries.   *)

PoolEpisodes == 6   \* episodes of the show, all of season 2

\* sem := make(chan struct{}, 5)
semSize == 5

\* a send on sem that never blocks
CanAcquireUnbounded(held) == TRUE

\* sem <- struct{}{} goes through while fewer than cap(sem) slots are taken
CanAcquire(held) == Cardinality(held) < semSize

\* the answers of the episode endpoint in this specification
PoolAnswers ==
    { EpAnswer("404", "", "", "", "", 0),
      EpAnswer("200", "/s1.jpg", "2020-02-02", "Pilot", "How it began", 45) }

\* a goroutine of the first round takes a slot
FetchAcquire ==
    /\ gor.pc = "pool"
    /\ epf.pc = "fetch"
    /\ \E i \in 1..Len(epf.results) :
         /\ <<1, i>> \notin gor.held \cup gor.finished
         /\ CanAcquire(gor.held)
         /\ gor' = [gor EXCEPT !.held = @ \cup {<<1, i>>}]
    /\ UNCHANGED <<db, files, run, srv, epf, img>>

\* its fetchAndStoreEpisodeData call, results[i] = ..., and the deferred <-sem
FetchRelease ==
    /\ gor.pc = "pool"
    /\ epf.pc = "fetch"
    /\ \E i \in 1..Len(epf.results) :
         /\ <<1, i>> \in gor.held
         /\ \E a \in PoolAnswers :
              LET ref == epf.results[i].ref
                  r == fetchAndStoreEpisodeData(db, ref.episodeID, a)
              IN /\ db' = r.db
                 /\ epf' = [epf EXCEPT !.results[i] = [ref |-> ref, done |-> TRUE] @@ r.res]
                 /\ srv' = [srv EXCEPT !.op = "episode",
                               !.asked = @ \cup {Asked(@, 1, i, ref.episodeID,
                                                        ref.seasonNum, ref.episodeNum)}]
         /\ gor' = [gor EXCEPT !.held = @ \ {<<1, i>>}, !.finished = @ \cup {<<1, i>>}]
    /\ UNCHANGED <<files, run, img>>

\* a goroutine of the omniseason round takes a slot of the same sem
OmniAcquire ==
    /\ gor.pc = "pool"
    /\ epf.pc = "omni"
    /\ \E idx \in SeqToSet(epf.retry) :
         /\ <<2, idx>> \notin gor.held \cup gor.finished
         /\ CanAcquire(gor.held)
         /\ gor' = [gor EXCEPT !.held = @ \cup {<<2, idx>>}]
    /\ UNCHANGED <<db, files, run, srv, epf, img>>

\* its fetchAndStoreEpisodeData call for season 1, the result kept if ok, <-sem
OmniRelease ==
    /\ gor.pc = "pool"
    /\ epf.pc = "omni"
    /\ \E idx \in SeqToSet(epf.retry) :
         /\ <<2, idx>> \in gor.held
         /\ \E a \in PoolAnswers :
              LET ref == epf.results[idx].ref
                  absEp == episodeOffset(epf.seasons, ref.seasonNum) + ref.episodeNum
                  r == fetchAndStoreEpisodeData(db, ref.episodeID, a)
              IN /\ db' = r.db
                 /\ epf' = [epf EXCEPT !.retried = @ \cup {idx},
                               !.results[idx] = IF r.res.ok
                                                THEN [ref |-> ref, done |-> TRUE] @@ r.res
                                                ELSE @]
                 /\ srv' = [srv EXCEPT !.op = "omni",
                               !.asked = @ \cup {Asked(@, 2, idx, ref.episodeID,
                                                        1, absEp)}]
         /\ gor' = [gor EXCEPT !.held = @ \ {<<2, idx>>}, !.finished = @ \cup {<<2, idx>>}]
    /\ UNCHANGED <<files, run, img>>

\* the store after the import of the show and the poster fetch of a first view
ResolvedShow(fs) ==
    fetchAndStoreTMDBImage(ImportAll(EmptyDb, fs).db, "tt2", "show",
                           FindAnswer("200", <<FullResult>>, <<>>), "").db

\* a view of the show has resolved its poster and TMDB id and reached the go
\* statements of maybeFetchEpisodes with every episode of the show to fetch
InitPool ==
    /\ files = ShowData(<<0, PoolEpisodes>>)
    /\ db = ResolvedShow(files)
    /\ run = IdleRun(1, Some(files))
    /\ srv = IdleSrv
    /\ LET show == getShowByID(db, TitleIdOf(db, "tt2"))
       IN epf = [pc |-> "fetch", t |-> show.title, seasons |-> show.seasons,
                 tmdbID |-> Val(show.title.tmdb),
                 results |-> PendingResults(toFetch(show.seasons)),
                 first |-> <<>>, retry |-> <<>>, retried |-> {}]
    /\ img = IdleImg
    /\ gor = [pc |-> "pool", held |-> {}, finished |-> {}]

NextPool ==
    \/ FetchAcquire
    \/ FetchRelease
    \/ PlanOmni
    \/ OmniAcquire
    \/ OmniRelease
    \/ FinishEpisodes

SpecPool == InitPool /\ [][NextPool]_vars

----------------------------------------------------------------------------
(* Forced imports and views of a show in turn, the cooldown elapsed before   *)
(* each view, the dataset fixed and the episode endpoint answering every     *)
(* call alike.  Time is kept as the age of episodes_checked_at, so that the  *)
(* turns can go on forever.                                                   *)

\* the answers the episode endpoint may be fixed to
FixedAnswers == EpPool \cup {EpAnswer("200", "", "", "Pilot", "", 0)}

\* a sync run with -force-imdb on the fixed dataset, all its stages
ForcedImport ==
    /\ epf.pc = "idle"
    /\ srv.op \in {"boot", "viewShow", "finish"}
    /\ db' = ImportAll(db, files).db
    /\ srv' = After("import", 0, Null)
    /\ UNCHANGED <<files, img, run, epf, gor>>

\* 24 hours pass: time.Since(*show.Title.EpisodesCheckedAt) is the cooldown
\* or more for every show that was checked
CooldownElapses ==
    /\ srv.op = "import"
    /\ db' = [db EXCEPT !.titles = [t \in TitleIds(db) |->
                 [db.titles[t] EXCEPT !.checkedAt =
                     IF IsNull(@) THEN @ ELSE Some(srv.now - Cooldown)]]]
    /\ srv' = After("tick", 0, Null)
    /\ UNCHANGED <<files, img, run, epf, gor>>

\* the view of the turn
ViewInTurn == srv.op = "tick" /\ ViewShow

InitAlternate ==
    /\ files \in {ShowData(sh) : sh \in Shapes(MaxShowEpisodes) \ {<<>>}}
    /\ db = ResolvedShow(files)
    /\ run = IdleRun(1, Some(files))
    /\ srv = IdleSrv
    /\ epf = IdleEpf
    /\ img = IdleImg
    /\ gor \in {[pc |-> "alt", answer |-> a] : a \in FixedAnswers}

NextAlternate ==
    \/ ForcedImport
    \/ CooldownElapses
    \/ ViewInTurn
    \/ EpisodeFetch
    \/ PlanOmni
    \/ OmniFetch
    \/ FinishEpisodes

\* a view that started its goroutines runs to its response; when the next
\* import or the next view comes is up to whoever starts it
SpecAlternate ==
    /\ InitAlternate
    /\ [][NextAlternate]_vars
    /\ WF_vars(EpisodeFetch) /\ WF_vars(PlanOmni) /\ WF_vars(OmniFetch) /\ WF_vars(FinishEpisodes)

----------------------------------------------------------------------------
(* Properties of the fetches: the lazy-fetch gate and the backfill *)

\* the operations of the lazy-fetch gate and of the backfill that write the store
FetchOps == {"viewMovie", "viewShow", "episode", "omni", "finish", "backfill"}

\* the detail views
ViewOps == {"viewMovie", "viewShow"}

\* the nullable text columns and the nullable numeric columns the fetches write
TitleText == {"image", "lang", "release", "country"}

TitleNumber == {"tmdb", "pop", "runtime"}

EpisodeText == {"image", "airDate", "name", "synopsis"}

EpisodeNumber == {"runtime"}

\* a column holds a value that is not null, not empty, not zero
RealText(v) == ~IsNull(v) /\ Val(v) # ""

RealNumber(v) == ~IsNull(v) /\ Val(v) # 0

\* the row after the step holds a value wherever the row before it held one
KeepsValues(before, after, text, number) ==
    /\ \A f \in text : RealText(before[f]) => RealText(after[f])
    /\ \A f \in number : RealNumber(before[f]) => RealNumber(after[f])

\* C4: no fetch, by the backfill or by the lazy-fetch gate (poster fetch or
\* episode fetch), replaces a stored field that is non-null/non-zero with an
\* empty, null or zero value.
C4_NoFetchEmptiesAField ==
    [][srv'.op \in FetchOps =>
         /\ \A i \in TitleIds(db) :
              KeepsValues(db.titles[i], db'.titles[i], TitleText, TitleNumber)
         /\ \A i \in 1..Len(db.episodes) :
              KeepsValues(db.episodes[i], db'.episodes[i], EpisodeText, EpisodeNumber)]_vars

\* the merge arguments as columns: what the UPDATE is handed for each field
MergeIncoming(a) ==
    [image |-> a.imageURL, lang |-> a.lang, release |-> a.releaseDate,
     country |-> a.oc, pop |-> a.pop, runtime |-> a.runtime]

MergeText == {"image", "lang", "release", "country"}

MergeNumber == {"pop", "runtime"}

SentinelEpisodes(d, tid) ==
    {i \in 1..Len(d.episodes) :
        d.episodes[i].key[1] = tid /\ d.episodes[i].image = Some(TMDBNotFound)}

\* the episodes the goroutines of the invocation e are to ask TMDB for
Requested(e) ==
    IF e.pc = "idle" THEN {} ELSE {e.results[i].ref.episodeID : i \in 1..Len(e.results)}

\* C6: for an image field that holds the negative sentinel and whose cooldown
\* has not elapsed, a repeat detail view issues zero external calls for that
\* field.  A poster sentinel is less than a cooldown old while the clock
\* reads less than Cooldown; the stills of a show are under the cooldown of
\* its episodes_checked_at.
C6_SentinelInCooldownMeansNoCall ==
    [][srv'.op \in ViewOps =>
         /\ (db.titles[srv'.tid].image = Some(ImageNone) /\ srv.now < Cooldown)
               => srv'.posterCalls = 0
         /\ InCooldown(db.titles[srv'.tid], srv.now)
               => SentinelEpisodes(db, srv'.tid) \cap Requested(epf') = {}]_vars

\* the logical state of an image field
ImageState(v) ==
    IF IsNull(v) \/ Val(v) = "" THEN "Unresolved"
    ELSE IF Val(v) \in {ImageNone, TMDBNotFound} THEN "Negative"
    ELSE "Resolved"

\* the transitions of the state machine of a resolvable field
ImageTransitions ==
    { <<"Unresolved", "Resolved">>, <<"Unresolved", "Negative">>,
      <<"Negative", "Resolved">>, <<"Negative", "Negative">> }

\* the field stays in its state or takes one of the transitions
ImageMoves(before, after) ==
    \/ ImageState(before) = ImageState(after)
    \/ <<ImageState(before), ImageState(after)>> \in ImageTransitions

\* C7: Resolved is terminal: no backfill or lazy-fetch operation moves an
\* image field that holds a real URL back to unresolved or to the negative
\* sentinel; a field changes state by Unresolved to Resolved, Unresolved to
\* Negative, Negative to Resolved or Negative to Negative only.
C7_ResolvedIsTerminal ==
    [][srv'.op \in FetchOps =>
         /\ \A i \in TitleIds(db) : ImageMoves(db.titles[i].image, db'.titles[i].image)
         /\ \A i \in 1..Len(db.episodes) :
              ImageMoves(db.episodes[i].image, db'.episodes[i].image)]_vars

\* an image handed to the template or the encoder is absent or a real URL
Presentable(v) == IsNull(v) \/ Val(v) \notin {ImageNone, TMDBNotFound}

\* C8: every title and episode a detail view hands to the rendering layer or
\* the JSON response has an image that is absent or a real URL: neither
\* sentinel is observable, on the first view and on every later one.
C8_NoSentinelInResponse ==
    ~IsNull(srv.resp) =>
        /\ Presentable(Val(srv.resp).image)
        /\ \A k \in 1..Len(Val(srv.resp).episodes) : Presentable(Val(srv.resp).episodes[k])

\* the rows a page holds
PageIds(page) == {page[k].id : k \in 1..Len(page)}

\* the last step was the row loop of the drain, its detail call answered st
RowAnswered(st) == srv'.op = "backfill" /\ srv'.detail \in st

\* C15: when the detail call of a backfill row is answered 429, the loop
\* sleeps its fixed five seconds and writes nothing; a row whose flag was set
\* keeps it, the drain goes on, and every page a later query of the drain can
\* return holds the row.
C15_ThrottledRowIsKeptForLater ==
    [][RowAnswered({"429"}) =>
          /\ srv'.slept = throttleSleep
          /\ db' = db
          /\ run'.pc = "backfill"
          /\ db.titles[srv'.tid].flag =>
                /\ db'.titles[srv'.tid].flag
                /\ \A page \in Pages(db') : srv'.tid \in PageIds(page)]_vars

\* a drain whose last row was throttled and is still flagged
C15_Witness ==
    /\ srv.op = "backfill"
    /\ srv.detail = "429"
    /\ srv.slept = throttleSleep
    /\ db.titles[srv.tid].flag
    /\ run.pc = "backfill"
    /\ run.page = <<>>

\* the answers to a detail call that are failures other than throttling: a
\* transport error, a status that is neither 200 nor 429, a body that does
\* not decode
DetailFailures == {"error", "404", "decode"}

Flagged(d) == {t \in TitleIds(d) : d.titles[t].flag}

\* the drain has ended
Drained == run.pc = "done"

CheckedToday(row, now) == ~IsNull(row.checkedAt) /\ now - Val(row.checkedAt) < 24

\* the episodes of the show that lack a still or hold the episode sentinel
Unresolved(d, tid) ==
    {i \in 1..Len(d.episodes) :
        /\ d.episodes[i].key[1] = tid
        /\ (IsNull(d.episodes[i].image) \/ Val(d.episodes[i].image) \in {"", TMDBNotFound})}

\* C19: a view of a show whose episodes_checked_at is less than 24 hours old
\* starts no episode-detail call, whatever the number of its episodes without
\* a still or with the sentinel; an episode-detail call is only made by an
\* invocation that found no timestamp or one of 24 hours or more.
C19_NoEpisodeCallInCooldown ==
    [][/\ (srv'.op = "viewShow" /\ CheckedToday(db.titles[srv'.tid], srv.now))
            => epf'.pc = "idle" /\ Requested(epf') = {} /\ srv'.asked = {}
       /\ srv'.op \in {"episode", "omni"}
            => ~CheckedToday(epf.t, srv.now)]_vars

\* a view of a show checked today that has a sentinel episode and made no
\* episode call
C19_Witness ==
    /\ srv.op = "viewShow"
    /\ ~IsNull(srv.resp)
    /\ epf.pc = "idle"
    /\ CheckedToday(db.titles[srv.tid], srv.now)
    /\ SentinelEpisodes(db, srv.tid) # {}
    /\ Unresolved(db, srv.tid) # {}
    /\ ~IsNull(db.titles[srv.tid].tmdb)

\* C18: every external fetch retries a throttled request a bounded number
\* of times, so the batch show lookup and the batch episode fetch of
\* sync-images end, and with them the process, whatever TMDB answers, a 429
\* to every request included.
C18_ThrottledFetchesTerminate == <>[](img.pc = "done")

\* the calls to TMDB the last operation made so far: Find and detail calls
\* of the poster fetch and of the backfill, and episode calls
ExternalCalls == srv.posterCalls + srv.backfillCalls + Cardinality(srv.asked)

\* C25: every call to TMDB is made after a tick of the rate limiter was
\* received: an operation has made no more calls than it has taken ticks,
\* in the row loop of the backfill and in the detail views of the server.
C25_EveryCallTakesASlot == ExternalCalls <= srv.slots

\* the same for the row loop of the backfill alone, where it holds
BackfillCallsTakeSlots == srv.op = "backfill" => ExternalCalls = srv.slots

\* the titles row has no IMDb id
NoImdbId(row) == row.imdb = Null \/ row.imdb = Some("")

\* the inline backfill of a view of title t, should it ask TMDB nothing
InlineBackfill(d, t) == maybeTMDBBackfill(NewRequest(d, Load(d, t)), NoAnswer, NoAnswer)

\* C28: the backfill clears the flag of a flagged row with no IMDb id without
\* a call to TMDB and without changing another field of the row or another
\* row; so does the row loop of the batch, and so does the inline backfill
\* of a view.
C28_RowWithoutIdIsOnlyUnflagged ==
    [][\A t \in TitleIds(db) :
         (NoImdbId(db.titles[t]) /\ db.titles[t].flag) =>
            /\ (srv'.op = "backfill" /\ srv'.tid = t) =>
                  /\ db' = [db EXCEPT !.titles[t].flag = FALSE]
                  /\ srv'.backfillCalls = 0 /\ srv'.slots = 0 /\ srv'.detail = ""
            /\ InlineBackfill(db, t).db = [db EXCEPT !.titles[t].flag = FALSE]
            /\ InlineBackfill(db, t).backfillCalls = 0]_vars

\* the row loop has just cleared the flag of a row with no IMDb id
C28_Witness ==
    /\ srv.op = "backfill"
    /\ srv.tid \in TitleIds(db)
    /\ NoImdbId(db.titles[srv.tid])
    /\ ~db.titles[srv.tid].flag
    /\ srv.backfillCalls = 0

\* C29: when the Find call of a row returns a body with no result of either
\* kind, the row loop clears the flag of the row and makes no detail call
\* for it, and a row whose flag is clear and that is not in the page in hand
\* stays so: no later page of the drain holds it.
C29_EmptyLookupClearsTheRow ==
    [][/\ (srv'.op = "backfill" /\ srv'.lookup = "empty") =>
            /\ ~db'.titles[srv'.tid].flag
            /\ srv'.detail = ""
            /\ srv'.backfillCalls = 1
            /\ srv'.tid \notin PageIds(run'.page)
       /\ \A t \in TitleIds(db) :
            (~db.titles[t].flag /\ t \notin PageIds(run.page))
               => (~db'.titles[t].flag /\ t \notin PageIds(run'.page))]_vars

\* the drain has ended, the last row of its page was one whose Find call
\* returned no result, and the row is not flagged
C29_Witness ==
    /\ srv.op = "backfill"
    /\ srv.lookup = "empty"
    /\ ~db.titles[srv.tid].flag
    /\ IsNull(db.titles[srv.tid].tmdb)

\* C30: when the Find call of a row is answered with 429, the flag of the
\* row stays set, as it does after a throttled detail call.
C30_ThrottledLookupKeepsTheFlag ==
    [][(srv'.op = "backfill" /\ srv'.lookup = "throttled")
          => db'.titles[srv'.tid].flag]_vars

\* the results of the fetch round in hand that are not ok
FailedResults == {i \in 1..Len(epf.results) : ~epf.results[i].ok}

\* C32: when maybeFetchEpisodes ends a fetch round, every episode of the round
\* whose result is not ok, the omniseason retry included, has the sentinel
\* stored in its image field.
C32_FailedEpisodesGetTheSentinel ==
    [][srv'.op = "finish" =>
         \A i \in FailedResults :
            db'.episodes[epf.results[i].ref.episodeID].image = Some(TMDBNotFound)]_vars

\* that holds of the episodes the API answered 404 for
NotFoundEpisodesGetTheSentinel ==
    [][srv'.op = "finish" =>
         \A i \in FailedResults :
            epf.results[i].notFound =>
               db'.episodes[epf.results[i].ref.episodeID].image = Some(TMDBNotFound)]_vars

\* the titles row holds a TMDB id other than zero
HasTmdbId(row) == ~IsNull(row.tmdb) /\ Val(row.tmdb) # 0

\* C31: once a title holds a non-zero TMDB id, no view of it (poster fetch,
\* inline backfill), no episode fetch and no backfill row step writes another
\* value, zero included, to it.
C31_TmdbIdIsAssignedOnce ==
    [][srv'.op \in FetchOps =>
         \A t \in TitleIds(db) :
            HasTmdbId(db.titles[t]) => db'.titles[t].tmdb = db.titles[t].tmdb]_vars

\* the backfill row step and the inline backfill keep a non-zero TMDB id
BackfillKeepsTmdbId ==
    [][srv'.op = "backfill" =>
         \A t \in TitleIds(db) :
            HasTmdbId(db.titles[t]) => db'.titles[t].tmdb = db.titles[t].tmdb]_vars

\* the vote count a row is sorted by, rows without one after all others
VotesOf(d, t) == IF IsNull(d.titles[t].votes) THEN -1 ELSE Val(d.titles[t].votes)

\* page holds, highest vote count first, as many flagged rows of d as the
\* limit allows, and no flagged row left out has more votes than one it holds
TopFlagged(d, page) ==
    /\ \A k \in 1..Len(page) : page[k].id \in Flagged(d)
    /\ \A j, k \in 1..Len(page) : j # k => page[j].id # page[k].id
    /\ Len(page) = IF Cardinality(Flagged(d)) < batchLimit
                   THEN Cardinality(Flagged(d)) ELSE batchLimit
    /\ \A j, k \in 1..Len(page) : j < k => VotesOf(d, page[j].id) >= VotesOf(d, page[k].id)
    /\ \A k \in 1..Len(page) : \A t \in Flagged(d) \ PageIds(page) :
          VotesOf(d, page[k].id) >= VotesOf(d, t)

\* C33: a page of the backfill is the flagged rows with the highest vote
\* counts at the time of its query, up to the page size, rows without a vote
\* count last; the rows of a page are processed in that order; and a page is
\* queried only when the page before it has been processed to its end.
C33_PagesByVotesInOrder ==
    [][/\ srv'.op = "query" => (run.page = <<>> /\ TopFlagged(db, run'.page))
       /\ srv'.op = "backfill" =>
            (run.page # <<>> /\ srv'.tid = Head(run.page).id /\ run'.page = Tail(run.page))]_vars

\* a page was queried that the limit cut, its rows differing in votes
C33_Witness ==
    /\ srv.op = "query"
    /\ Len(run.page) = batchLimit
    /\ Flagged(db) \ PageIds(run.page) # {}
    /\ VotesOf(db, run.page[1].id) > VotesOf(db, run.page[2].id)

\* the display names of the episodes, in the order of their rows
EpisodeNames(d) == [e \in 1..Len(d.episodes) |-> d.episodes[e].name]

\* C36: forced imports and views of a show taking turns, the dataset and the
\* answers of the API fixed, from some point on no step changes the display
\* name of an episode.
C36_EpisodeNamesSettle == <>[][EpisodeNames(db') = EpisodeNames(db)]_vars

\* the display names settle when the API names no episode, or gives a still
\* with the name so that the episode is fetched once
EpisodeNamesSettleUnlessRefetched ==
    (gor.pc = "alt" /\ (gor.answer.status # "200" \/ gor.answer.name = "" \/ gor.answer.still # ""))
       => <>[][EpisodeNames(db') = EpisodeNames(db)]_vars

\* show.Seasons as maybeFetchEpisodes leaves it to its caller at the end of
\* the fetch round in hand
HandedBack == stripEpisodeSentinels(ApplyResults(epf.seasons, epf.results))

\* the episode of result i as handed back
HandedEpisode(i) ==
    HandedBack[epf.results[i].ref.seasonIdx].episodes[epf.results[i].ref.episodeIdx]

\* the image of a stored episode, the sentinel read as absent
ImageRead(row) == IF row.image = Some(TMDBNotFound) THEN Null ELSE row.image

\* a stored text, the empty one read as absent
TextRead(v) == IF v = Some("") THEN Null ELSE v

\* the results of the fetch round in hand that are ok
FetchedResults == {i \in 1..Len(epf.results) : epf.results[i].ok}

\* C37: when maybeFetchEpisodes ends a fetch round, display name, image, air
\* date, runtime and synopsis of every episode fetched with success are, in
\* the structs handed to the caller, the values the store now holds for it,
\* a stored sentinel and an empty synopsis read as absent.
C37_HandedBackEqualsStored ==
    [][srv'.op = "finish" =>
         \A i \in FetchedResults :
            /\ HandedEpisode(i).name = db'.episodes[epf.results[i].ref.episodeID].name
            /\ HandedEpisode(i).image = ImageRead(db'.episodes[epf.results[i].ref.episodeID])
            /\ HandedEpisode(i).airDate = db'.episodes[epf.results[i].ref.episodeID].airDate
            /\ HandedEpisode(i).runtime = db'.episodes[epf.results[i].ref.episodeID].runtime
            /\ HandedEpisode(i).synopsis =
                  TextRead(db'.episodes[epf.results[i].ref.episodeID].synopsis)]_vars

\* that holds of image, air date and runtime
HandedBackImageDateRuntimeEqualStored ==
    [][srv'.op = "finish" =>
         \A i \in FetchedResults :
            /\ HandedEpisode(i).image = ImageRead(db'.episodes[epf.results[i].ref.episodeID])
            /\ HandedEpisode(i).airDate = db'.episodes[epf.results[i].ref.episodeID].airDate
            /\ HandedEpisode(i).runtime = db'.episodes[epf.results[i].ref.episodeID].runtime]_vars

\* the titles whose flag the step clears
FlagCleared == {t \in TitleIds(db) : db.titles[t].flag /\ ~db'.titles[t].flag}

\* C38: the flag of a title is cleared only by the backfill, in the drain or
\* inline in a view of the title, and only when the row has no IMDb id to look
\* up or an external call of the backfill was made for it; a poster fetch
\* alone does not clear it.
C38_OnlyTheBackfillClearsTheFlag ==
    [][\A t \in FlagCleared :
          /\ srv'.op \in {"backfill"} \cup ViewOps
          /\ srv'.tid = t
          /\ (srv'.backfillCalls >= 1 \/ NoImdbId(db.titles[t]))]_vars

\* that holds of the steps of the drain
DrainClearsTheFlagAfterItsCalls ==
    [][srv'.op = "backfill" =>
         \A t \in FlagCleared :
            srv'.tid = t /\ (srv'.backfillCalls >= 1 \/ NoImdbId(db.titles[t]))]_vars

\* the poster field, the TMDB id and the popularity of a titles row
PosterValues(row) == <<row.image, row.tmdb, row.pop>>

\* both handlers of the race fetched and stored, and both have responded
BothStored ==
    /\ gor.pc = "race"
    /\ \A g \in 1..2 : Handler(g).pc = "done"
    /\ Len(gor.stored) = 2

\* the row as the two UPDATEs leave it when g1 writes before g2
StoredInOrder(g1, g2) ==
    StoredRow(StoredRow(gor.row0, Val(Handler(g1).pick), Handler(g1).oc),
              Val(Handler(g2).pick), Handler(g2).oc)

\* C23: when two concurrent detail requests for a title with no poster both
\* fetched and stored, the poster field, TMDB id and popularity of the row are
\* what they would be had the two UPDATEs run in the other order.
C23_StoredValuesAreOrderIndependent ==
    BothStored =>
        /\ db.titles[gor.tid] = StoredInOrder(gor.stored[1], gor.stored[2])
        /\ PosterValues(db.titles[gor.tid])
              = PosterValues(StoredInOrder(gor.stored[2], gor.stored[1]))

\* the same for two requests whose Find calls were answered alike, where it holds
StoredValuesAreOrderIndependentOnEqualPicks ==
    (BothStored /\ Handler(1).pick = Handler(2).pick)
        => C23_StoredValuesAreOrderIndependent

\* the goroutines of the round in progress that wait for a slot of sem
WaitingForSlot ==
    IF epf.pc = "fetch"
    THEN {<<1, i>> : i \in 1..Len(epf.results)} \ (gor.held \cup gor.finished)
    ELSE IF epf.pc = "omni"
    THEN {<<2, idx>> : idx \in SeqToSet(epf.retry)} \ (gor.held \cup gor.finished)
    ELSE {}

\* C24: in one maybeFetchEpisodes invocation at most 5 episode requests are
\* in flight at any moment, in the first round and in the omniseason round,
\* and when the invocation has returned every goroutine it started has
\* finished its fetch: all of the first round and all of the retry list.
C24_AtMostFiveInFlight ==
    gor.pc = "pool" =>
        /\ Cardinality(gor.held) <= 5
        /\ epf.pc = "omni" => \A q \in gor.held : q[1] = 2
        /\ epf.pc = "idle" =>
              /\ gor.held = {}
              /\ \A q \in srv.asked : <<q.round, q.idx>> \in gor.finished
              /\ Cardinality({q \in gor.finished : q[1] = 1}) = PoolEpisodes

\* the omniseason round with five requests in flight and a sixth goroutine
\* waiting for a slot
C24_Witness ==
    /\ gor.pc = "pool"
    /\ epf.pc = "omni"
    /\ Cardinality(gor.held) = 5
    /\ WaitingForSlot # {}

----------------------------------------------------------------------------
(* The episode fetch of a show whose poster and TMDB id a first view resolved *)

InitOmni ==
    /\ files \in {ShowData(sh) : sh \in Shapes(MaxShowEpisodes)}
    /\ db = ResolvedShow(files)
    /\ run = IdleRun(1, Some(files))
    /\ srv = IdleSrv
    /\ epf = IdleEpf
    /\ img = IdleImg
    /\ gor = IdleGor

NextOmni ==
    \/ ViewShow
    \/ EpisodeFetch
    \/ PlanOmni
    \/ OmniFetch
    \/ FinishEpisodes
    \/ Tick

SpecOmni == InitOmni /\ [][NextOmni]_vars

----------------------------------------------------------------------------
(* Properties of the omniseason fallback *)

\* the calls of the omniseason round made so far by the invocation in progress
OmniCalls == {q \in srv.asked : q.round = 2}

\* the results of the first round for the season of the episode at index idx
SeasonResults(first, idx) ==
    {j \in 1..Len(first) : first[j].ref.seasonNum = first[idx].ref.seasonNum}

\* C9: in one maybeFetchEpisodes invocation an episode is retried through the
\* omniseason fallback only if every episode requested for its season came
\* back not-found and the season is not season one; a season with a requested
\* episode that was not not-found is never retried; each episode is retried
\* at most once.
C9_OmniRetryOnlyForLostSeasons ==
    epf.pc = "omni" =>
        /\ \A q \in OmniCalls :
             /\ epf.first[q.idx].ref.seasonNum # 1
             /\ \A j \in SeasonResults(epf.first, q.idx) : epf.first[j].notFound
             /\ q.nth = 1
             /\ q.episodeID = epf.first[q.idx].ref.episodeID
        /\ \A q, r \in OmniCalls : q.idx = r.idx => q = r

\* both episodes of season 2 came back not-found and both were retried
C9_Witness ==
    /\ epf.pc = "omni"
    /\ Cardinality(OmniCalls) = 2
    /\ \A q \in OmniCalls : epf.first[q.idx].ref.seasonNum = 2

\* the episodes the store holds for season sn of show tid
StoredCount(d, tid, sn) ==
    Cardinality({i \in 1..Len(d.episodes) :
                    d.episodes[i].key[1] = tid /\ d.episodes[i].key[2] = sn})

\* the stored episode counts of the seasons of show tid before season sn, summed
RECURSIVE EarlierEpisodes(_, _, _)
EarlierEpisodes(d, tid, sn) ==
    IF sn <= 0 THEN 0
    ELSE StoredCount(d, tid, sn - 1) + EarlierEpisodes(d, tid, sn - 1)

====
